---- MODULE Spec2Model ----
(***************************************************************************)
(* Model of the process-supervision and language-server start-up code of   *)
(* serena:                                                                 *)
(*   - src/src/serena/tui/exec.py           find_executable,               *)
(*         require_executable, run_capture, run_stream_lines               *)
(*   - src/src/serena/tui/app.py            SerenaTuiApp                   *)
(*   - src/src/solidlsp/util/subprocess_util.py  find_executable_in_path   *)
(*   - src/src/solidlsp/language_servers/yaml_language_server.py           *)
(*         _setup_runtime_dependencies, __init__, _start_server,           *)
(*         _determine_log_level                                            *)
(*   - src/src/serena/tui/project.py        find_project_root              *)
(*   - src/src/serena/tui/state.py          SerenaTuiState                 *)
(*   - src/test/harness/performance.py      PerformanceTracker             *)
(* Nine specifications share the module: SpecCapture (one run_capture      *)
(* call and its child), SpecInstall (concurrent callers of                 *)
(* _setup_runtime_dependencies on one target directory), SpecSession (one  *)
(* YamlLanguageServer from construction to readiness), SpecResolve (the    *)
(* executable resolvers applied to one host environment), SpecTui (one     *)
(* SerenaTuiApp, its streamed children and their pump tasks),              *)
(* SpecClassify (the stderr line classifier), SpecProject (the project     *)
(* root search over one chain of directories), SpecTracker (one            *)
(* PerformanceTracker and its track() contexts) and SpecState (one         *)
(* SerenaTuiState saved to and loaded from its state file).                *)
(***************************************************************************)
EXTENDS Integers, Sequences, FiniteSets, TLC

VARIABLES
    \* ---- run_capture (exec.py:52-85) ----
    rcPc,          \* position of the coroutine
    rcTimeout,     \* timeout_s: "None" or "set"
    proc,          \* the child: "none", "running", "exited" (status not collected), "reaped"
    exitBy,        \* how the child ended: "none", "self", "kill"
    killSent,      \* proc.kill() has been called
    stdoutEof,     \* the child's stdout pipe reached end-of-file
    written,       \* chunks the child has written so far
    output,        \* local `output`: Unbound or the number of chunks captured
    rc,            \* local `rc`: "unset", "self", "kill"
    rcExc,         \* exception in flight / raised: "none", "Timeout", "ReadError", ...
    timedOut,      \* history: the read timed out
    seenAtTimeout, \* history: chunks received when the read timed out
    \* ---- host environment seen by find_executable_in_path ----
    osNt,          \* os.name == "nt" / platform.system() == "Windows"
    whichFinds,    \* the tool names shutil.which() finds on PATH
    whereRun,      \* outcome of `where <exe>`: rc (-1: subprocess.run raised) and stdout lines
    pyDirHas,      \* the file names that exist in the directory of sys.executable
    \* ---- results of the resolvers applied to one host environment ----
    feOut,         \* find_executable(base): "unset", "None" or a path
    reqOut,        \* require_executable(base): the path returned and the error raised
    feipOut,       \* find_executable_in_path(base): "unset", "None" or the text returned
    \* ---- _setup_runtime_dependencies (yaml_language_server.py:60-99) ----
    pc,            \* per caller: position in _setup_runtime_dependencies
    marker,        \* the marker executable exists under the target directory
    result,        \* per caller: the returned command, or "none"
    err,           \* per caller: the exception raised, or "none"
    errPath,       \* per caller: the path named in the FileNotFoundError message
    installRuns,   \* executions of the install command so far
    installActive, \* executions of the install command in progress
    installsBy,    \* per caller: executions of the install command it started
    markerInit,    \* history: the marker existed before any call
    markerStayed,  \* history, per caller: marker present at entry and ever since
    markerAtFinal, \* history, per caller: what the check of line 95 saw
    removals,      \* times the marker was deleted from outside
    concurrent,    \* history: at some moment every caller was inside its call
    \* ---- one YamlLanguageServer (yaml_language_server.py:45-58, 150-188) ----
    sPhase,        \* "new", "built", "starting", "awaiting", "done", "failed", "stopped"
    sIdx,          \* the statement of _start_server to execute next
    handlers,      \* methods with a registered request/notification handler
    sProc,         \* the backend process: "none", "running", "dead"
    sent,          \* the messages the client has sent, in order
    wire,          \* messages of the backend not yet dispatched, in order
    initResp,      \* the initialize response received: "none", "symbols", "nosymbols"
    serverReady,   \* server_ready (threading.Event) is set
    readySets,     \* number of server_ready.set() calls
    warned,        \* the missing-capability warning was logged
    unhandled,     \* methods that were dispatched while no handler was registered
    emitted,       \* unsolicited messages the backend has sent
    startAttempts, \* calls of start() so far
    sErr,          \* the exception _start_server raised, or "none"
    deadlineExpired, \* history: the handshake deadline elapsed unanswered
    \* ---- SerenaTuiApp and its streamed children (app.py, exec.py:11-16, 88-113) ----
    mcpProc,       \* self._mcp_proc: 0 for None, else the stream whose handle it holds
    hPc,           \* the button handler in progress: "idle", "spawning", "spawned", "capturing"
    nStreams,      \* run_stream_lines calls that created a child so far
    chState,       \* per stream: the child is "none", "running", "exited"
    chBehaviour,   \* per stream: the child "exits" (by itself or on SIGTERM) or "ignoresTerm"
    chWritten,     \* per stream: lines the child has written
    termSent,      \* per stream: terminate() reached the running child
    killTried,     \* per stream: kill() was called on the handle
    stopped,       \* per stream: action_stop_mcp was run on its handle
    pump,          \* per stream: the pump task is "none", "running", "done", "removed"
    pumpEnd,       \* per stream: how the pump ended: "none", "eof", "error", "cancelled"
    invoked,       \* per stream: the lines on_line was called with, in order
    bgTasks,       \* _BACKGROUND_TASKS: the streams whose pump task is in the set
    captures,      \* run_capture children spawned by _run_serena so far
    errorsLogged,  \* "[error] ..." lines written to the log
    refusals,      \* "[mcp] already running" lines written to the log
    appAlive,      \* no exception has left a handler of the app
    shutdownDone,  \* on_shutdown has run
    afterShutdown, \* history: on_line was called after on_shutdown had run
    actionsDone,   \* button and key actions handled so far
    lastButton,    \* the action handled last: "none", "start", "run", "stop"
    savedTransport, \* state.transport as last written by state.save(), "none" before
    \* ---- YamlLanguageServer._determine_log_level (yaml_language_server.py:29-43) ----
    clLine,        \* the stderr line: a sequence of words
    clLevel,        \* the severity returned for it, "unset" before the call
    \* ---- find_project_root (project.py:6-24) ----
    prYml,         \* per directory level (0: start, then its ancestors): .serena/project.yml is "none", a "file", a "dir"
    prGit,         \* the levels whose directory contains .git
    prRoot,         \* the level returned, NoRoot before the call
    \* ---- PerformanceTracker (test/harness/performance.py:123-259) ----
    tkKnown,       \* the operation names that are keys of _metrics
    tkSamples,     \* per operation name: len(samples) of its PerformanceMetrics
    tkCtx,         \* per context: its operation and whether it is "none", "created", "entered", "exited"
    tkCreated,     \* track() calls so far
    tkExited,       \* history, per operation name: contexts of that name exited so far
    \* ---- SerenaTuiState and its state file (state.py) ----
    stObj,         \* the SerenaTuiState object the program holds
    stFile,        \* <root>/.serena/serena_tui_state.json: absent, or the JSON object in it
    stSaved,       \* the object as save() left it when it last wrote the file
    stPc,          \* "new", "saved" (save returned) or "loaded" (load returned)
    stCycles       \* number of load calls made

capVars == <<rcPc, rcTimeout, proc, exitBy, killSent, stdoutEof, written, output, rc,
             rcExc, timedOut, seenAtTimeout>>

envVars == <<osNt, whichFinds, whereRun, pyDirHas>>

resVars == <<feOut, reqOut, feipOut>>

tuiVars == <<mcpProc, hPc, nStreams, chState, chBehaviour, chWritten, termSent, killTried,
             stopped, pump, pumpEnd, invoked, bgTasks, captures, errorsLogged, refusals,
             appAlive, shutdownDone, afterShutdown, actionsDone, lastButton, savedTransport>>

instVars == <<pc, marker, result, err, errPath, installRuns, installActive, installsBy,
              markerInit, markerStayed, markerAtFinal, removals, concurrent>>

sessVars == <<sPhase, sIdx, handlers, sProc, sent, wire, initResp, serverReady, readySets,
              warned, unhandled, emitted, startAttempts, sErr, deadlineExpired>>

clsVars == <<clLine, clLevel>>

projVars == <<prYml, prGit, prRoot>>

trkVars == <<tkKnown, tkSamples, tkCtx, tkCreated, tkExited>>

stVars == <<stObj, stFile, stSaved, stPc, stCycles>>

nonCapVars == <<envVars, instVars, sessVars, resVars, tuiVars, clsVars, projVars, trkVars, stVars>>

nonInstVars == <<capVars, envVars, sessVars, resVars, tuiVars, clsVars, projVars, trkVars, stVars>>

nonSessVars == <<capVars, envVars, instVars, resVars, tuiVars, clsVars, projVars, trkVars, stVars>>

nonResVars == <<capVars, envVars, instVars, sessVars, tuiVars, clsVars, projVars, trkVars, stVars>>

nonTuiVars == <<capVars, envVars, instVars, sessVars, resVars, clsVars, projVars, trkVars, stVars>>

nonClsVars == <<envVars, instVars, sessVars, resVars, tuiVars, capVars, projVars, trkVars, stVars>>

nonProjVars == <<envVars, instVars, sessVars, resVars, tuiVars, clsVars, capVars, trkVars, stVars>>

nonTrkVars == <<envVars, instVars, sessVars, resVars, tuiVars, clsVars, projVars, capVars, stVars>>

nonStVars == <<envVars, instVars, sessVars, resVars, tuiVars, clsVars, projVars, trkVars, capVars>>

vars == <<rcPc, rcTimeout, proc, exitBy, killSent, stdoutEof, written, output, rc,
          rcExc, timedOut, seenAtTimeout,
          osNt, whichFinds, whereRun,
          pc, marker, result, err, errPath, installRuns, installActive, installsBy,
          markerInit, markerStayed, markerAtFinal, removals, concurrent,
          sPhase, sIdx, handlers, sProc, sent, wire, initResp, serverReady, readySets,
          warned, unhandled, emitted, startAttempts, sErr, deadlineExpired,
          pyDirHas, feOut, reqOut, feipOut,
          mcpProc, hPc, nStreams, chState, chBehaviour, chWritten, termSent, killTried,
          stopped, pump, pumpEnd, invoked, bgTasks, captures, errorsLogged, refusals,
          appAlive, shutdownDone, afterShutdown, actionsDone, lastButton, savedTransport,
          clLine, clLevel,
          prYml, prGit, prRoot,
          tkKnown, tkSamples, tkCtx, tkCreated, tkExited,
          stObj, stFile, stSaved, stPc, stCycles>>

\* ------------------------------------------------------------------------
\* Bounds
\* ------------------------------------------------------------------------
MaxChunks == 2
NumCallers == 2
MaxRemovals == 1
MaxBackendMsgs == 2
MaxStartAttempts == 2
MaxStreams == 2
MaxLines == 2
MaxActions == 3
MaxWords == 2
MaxDepth == 2
MaxContexts == 3

\* state.py: longest modes list of a SerenaTuiState, and load calls followed
MaxModes == 2

MaxLoads == 2

Callers == 1..NumCallers

Streams == 1..MaxStreams

\* project.py:15  [current, *current.parents]: the start directory is level
\* 0, its parent level 1, and so on up to the filesystem root
Levels == 0..MaxDepth

\* `prRoot` before find_project_root has returned
NoRoot == -1

\* test_symbol_performance.py:211-216  the operation names that are tracked
Operations == {"fast_op", "slow_op"}

\* the PerformanceContext objects, in order of creation
Contexts == 1..MaxContexts

\* `output` before its assignment (exec.py:74/76)
Unbound == -1

\* ========================================================================
\* run_capture (exec.py:52-85)
\* ========================================================================
\* exec.py:59-65  create_subprocess_exec succeeded
RcSpawn ==
    /\ rcPc = "idle"
    /\ rcPc' = "reading"
    /\ proc' = "running"
    /\ UNCHANGED <<rcTimeout, exitBy, killSent, stdoutEof, written, output, rc, rcExc,
                   timedOut, seenAtTimeout>>
    /\ UNCHANGED nonCapVars

\* exec.py:59-65  create_subprocess_exec raised: nothing was spawned
RcSpawnFail ==
    /\ rcPc = "idle"
    /\ rcPc' = "raised"
    /\ rcExc' = "SpawnError"
    /\ UNCHANGED <<rcTimeout, proc, exitBy, killSent, stdoutEof, written, output, rc,
                   timedOut, seenAtTimeout>>
    /\ UNCHANGED nonCapVars

\* the child writes a chunk to its stdout/stderr pipe
ChildWrite ==
    /\ proc = "running"
    /\ ~stdoutEof
    /\ written < MaxChunks
    /\ written' = written + 1
    /\ UNCHANGED <<rcPc, rcTimeout, proc, exitBy, killSent, stdoutEof, output, rc, rcExc,
                   timedOut, seenAtTimeout>>
    /\ UNCHANGED nonCapVars

\* the write end of the pipe is closed (by the child, or because it ended)
ChildCloseStdout ==
    /\ proc # "none"
    /\ ~stdoutEof
    /\ stdoutEof' = TRUE
    /\ UNCHANGED <<rcPc, rcTimeout, proc, exitBy, killSent, written, output, rc, rcExc,
                   timedOut, seenAtTimeout>>
    /\ UNCHANGED nonCapVars

\* the child ends: on its own, or from the SIGKILL once it has been sent
ChildExit ==
    /\ proc = "running"
    /\ proc' = "exited"
    /\ exitBy' \in (IF killSent THEN {"kill"} ELSE {"self"})
    /\ UNCHANGED <<rcPc, rcTimeout, killSent, stdoutEof, written, output, rc, rcExc,
                   timedOut, seenAtTimeout>>
    /\ UNCHANGED nonCapVars

\* exec.py:67-76  read_all() returned: the stream reached end-of-file
RcReadEof ==
    /\ rcPc = "reading"
    /\ stdoutEof
    /\ output' = written
    /\ rcPc' = "graceWait"
    /\ UNCHANGED <<rcTimeout, proc, exitBy, killSent, stdoutEof, written, rc, rcExc,
                   timedOut, seenAtTimeout>>
    /\ UNCHANGED nonCapVars

\* exec.py:76  wait_for(read_all(), timeout_s) expired: TimeoutError is in
\* flight, `output` was never assigned, the finally block runs
RcReadTimeout ==
    /\ rcPc = "reading"
    /\ rcTimeout = "set"
    /\ ~stdoutEof
    /\ rcExc' = "Timeout"
    /\ timedOut' = TRUE
    /\ seenAtTimeout' = written
    /\ rcPc' = "graceWait"
    /\ UNCHANGED <<rcTimeout, proc, exitBy, killSent, stdoutEof, written, output, rc>>
    /\ UNCHANGED nonCapVars

\* exec.py:69  proc.stdout.read() raised
RcReadError ==
    /\ rcPc = "reading"
    /\ rcExc' = "ReadError"
    /\ rcPc' = "graceWait"
    /\ UNCHANGED <<rcTimeout, proc, exitBy, killSent, stdoutEof, written, output, rc,
                   timedOut, seenAtTimeout>>
    /\ UNCHANGED nonCapVars

\* exec.py:85 and the end of the finally block: return (rc, output), or
\* re-raise the exception the try body left in flight
AfterFinally(exc) == IF exc = "none" THEN "returned" ELSE "raised"

\* exec.py:80  wait_for(proc.wait(), 1) completed: the child had ended
RcGraceWaitDone ==
    /\ rcPc = "graceWait"
    /\ proc = "exited"
    /\ proc' = "reaped"
    /\ rc' = exitBy
    /\ rcPc' = AfterFinally(rcExc)
    /\ UNCHANGED <<rcTimeout, exitBy, killSent, stdoutEof, written, output, rcExc,
                   timedOut, seenAtTimeout>>
    /\ UNCHANGED nonCapVars

\* exec.py:81-83  the handler of the expired grace wait: proc.kill(), then
\* wait for the child
OnGraceExpired_NoKill(exc) == [kill |-> FALSE, next |-> AfterFinally(exc)]

OnGraceExpired(exc) == [kill |-> TRUE, next |-> "killWait"]

\* exec.py:80-82  wait_for(proc.wait(), 1) expired with the child still running
RcGraceWaitExpired ==
    /\ rcPc = "graceWait"
    /\ proc = "running"
    /\ rcPc' = OnGraceExpired(rcExc).next
    /\ killSent' = OnGraceExpired(rcExc).kill
    /\ UNCHANGED <<rcTimeout, proc, exitBy, stdoutEof, written, output, rc, rcExc,
                   timedOut, seenAtTimeout>>
    /\ UNCHANGED nonCapVars

\* exec.py:83  rc = await proc.wait() after the kill
RcKillWaitDone ==
    /\ rcPc = "killWait"
    /\ proc = "exited"
    /\ proc' = "reaped"
    /\ rc' = exitBy
    /\ rcPc' = AfterFinally(rcExc)
    /\ UNCHANGED <<rcTimeout, exitBy, killSent, stdoutEof, written, output, rcExc,
                   timedOut, seenAtTimeout>>
    /\ UNCHANGED nonCapVars

\* the task awaiting run_capture is cancelled.  In the try body the
\* CancelledError enters the finally block; in the finally block it is a
\* BaseException, which `except Exception` (exec.py:81) does not catch, and it
\* leaves run_capture at once.
RcCancel ==
    /\ rcPc \in {"reading", "graceWait", "killWait"}
    /\ rcExc' = "Cancelled"
    /\ rcPc' = IF rcPc = "reading" THEN "graceWait" ELSE "raised"
    /\ UNCHANGED <<rcTimeout, proc, exitBy, killSent, stdoutEof, written, output, rc,
                   timedOut, seenAtTimeout>>
    /\ UNCHANGED nonCapVars

\* ========================================================================
\* find_executable_in_path (subprocess_util.py:54-90)
\* ========================================================================
Tools == {"node", "npm"}

\* what shutil.which(exe) and the first line of `where exe` look like
WhichPath(exe) == "/usr/bin/" \o exe

\* the stripped stdout of `where exe`, as lines: nothing, one path, several
WherePaths == {<<>>, <<"C:\\nodejs\\tool.cmd">>, <<"C:\\nodejs\\tool.cmd", "D:\\tool.cmd">>}

\* subprocess_util.py:74-88  `where` exits 0 or 1, or subprocess.run raises
\* (rc -1) and the exception is swallowed
WhereOutcomes ==
    {[rc |-> 0, out |-> o] : o \in WherePaths}
        \cup {[rc |-> 1, out |-> <<>>], [rc |-> -1, out |-> <<>>]}

\* str.split("\n") of the stripped stdout: the empty text splits into one
\* empty line, never into no line
PySplitLines(lines) == IF lines = <<>> THEN <<"">> ELSE lines

\* subprocess_util.py:54-90
FindExecutableInPath(exe) ==
    IF exe \in whichFinds THEN WhichPath(exe)
    ELSE IF osNt /\ whereRun.rc = 0 /\ PySplitLines(whereRun.out) # <<>>
         THEN PySplitLines(whereRun.out)[1]
         ELSE "None"

\* ========================================================================
\* _setup_runtime_dependencies (yaml_language_server.py:60-99)
\* ========================================================================
\* yaml_language_server.py:83-88  the marker path, with the Windows suffix
YamlLsDir == "ls_resources/yaml-lsp"

YamlExecutablePath ==
    LET base == YamlLsDir \o "/node_modules/.bin/yaml-language-server"
    IN  IF osNt THEN base \o ".cmd" ELSE base

InFlight(c) == pc[c] \notin {"idle", "returned", "failed"}

\* yaml_language_server.py:50 / 61  a caller enters _setup_runtime_dependencies
SetupCall(c) ==
    /\ pc[c] = "idle"
    /\ pc' = [pc EXCEPT ![c] = "checkTools"]
    /\ markerStayed' = [markerStayed EXCEPT ![c] = marker]
    /\ concurrent' = (concurrent \/ \A d \in Callers \ {c} : InFlight(d))
    /\ UNCHANGED <<marker, result, err, errPath, installRuns, installActive, installsBy,
                   markerInit, markerAtFinal, removals>>
    /\ UNCHANGED nonInstVars

\* yaml_language_server.py:66-69  node and npm must resolve to something
\* other than None
ToolsAsserted == \A t \in Tools : FindExecutableInPath(t) # "None"

SetupCheckTools(c) ==
    /\ pc[c] = "checkTools"
    /\ IF ToolsAsserted
       THEN /\ pc' = [pc EXCEPT ![c] = "checkMarker"]
            /\ err' = err
       ELSE /\ pc' = [pc EXCEPT ![c] = "failed"]
            /\ err' = [err EXCEPT ![c] = "AssertionError"]
    /\ UNCHANGED <<marker, result, errPath, installRuns, installActive, installsBy,
                   markerInit, markerStayed, markerAtFinal, removals, concurrent>>
    /\ UNCHANGED nonInstVars

\* yaml_language_server.py:90  `if not os.path.exists(yaml_executable_path)`
NeedsInstall_Always(markerExists) == TRUE

NeedsInstall(markerExists) == ~markerExists

SetupCheckMarker(c) ==
    /\ pc[c] = "checkMarker"
    /\ pc' = [pc EXCEPT ![c] = IF NeedsInstall(marker) THEN "install" ELSE "recheck"]
    /\ UNCHANGED <<marker, result, err, errPath, installRuns, installActive, installsBy,
                   markerInit, markerStayed, markerAtFinal, removals, concurrent>>
    /\ UNCHANGED nonInstVars

\* yaml_language_server.py:92  deps.install(yaml_ls_dir) starts the install
\* command in the target directory
InstallBegin(c) ==
    /\ pc[c] = "install"
    /\ pc' = [pc EXCEPT ![c] = "installing"]
    /\ installRuns' = installRuns + 1
    /\ installActive' = installActive + 1
    /\ installsBy' = [installsBy EXCEPT ![c] = @ + 1]
    /\ UNCHANGED <<marker, result, err, errPath, markerInit, markerStayed, markerAtFinal,
                   removals, concurrent>>
    /\ UNCHANGED nonInstVars

\* yaml_language_server.py:90-93  nothing around deps.install catches its
\* exception: the call ends with it, the install command is not run again
OnInstallRaise_Retry == [pc |-> "install", err |-> "none"]

OnInstallRaise == [pc |-> "failed", err |-> "InstallationError"]

\* yaml_language_server.py:92  the install command ends: it exits 0 having
\* produced the marker ("ok"), exits 0 without it ("partial"), or fails
\* ("fail"), which deps.install reports by raising
InstallEnd(c) ==
    /\ pc[c] = "installing"
    /\ installActive' = installActive - 1
    /\ \E outcome \in {"ok", "partial", "fail"} :
         /\ marker' = (marker \/ outcome = "ok")
         /\ IF outcome = "fail"
            THEN /\ pc' = [pc EXCEPT ![c] = OnInstallRaise.pc]
                 /\ err' = [err EXCEPT ![c] = OnInstallRaise.err]
            ELSE /\ pc' = [pc EXCEPT ![c] = "recheck"]
                 /\ err' = err
    /\ UNCHANGED <<result, errPath, installRuns, installsBy, markerInit, markerStayed,
                   markerAtFinal, removals, concurrent>>
    /\ UNCHANGED nonInstVars

\* yaml_language_server.py:95-99  the final check of the marker
FinalCheck_Trusting(markerExists) == "returned"

FinalCheck(markerExists) == IF markerExists THEN "returned" ELSE "failed"

SetupRecheck(c) ==
    /\ pc[c] = "recheck"
    /\ markerAtFinal' = [markerAtFinal EXCEPT ![c] = marker]
    /\ pc' = [pc EXCEPT ![c] = FinalCheck(marker)]
    /\ IF FinalCheck(marker) = "returned"
       THEN /\ result' = [result EXCEPT ![c] = YamlExecutablePath \o " --stdio"]
            /\ UNCHANGED <<err, errPath>>
       ELSE /\ err' = [err EXCEPT ![c] = "FileNotFoundError"]
            /\ errPath' = [errPath EXCEPT ![c] = YamlExecutablePath]
            /\ UNCHANGED result
    /\ UNCHANGED <<marker, installRuns, installActive, installsBy, markerInit,
                   markerStayed, removals, concurrent>>
    /\ UNCHANGED nonInstVars

\* the marker is deleted from outside the program (the resources directory
\* is cleaned)
MarkerRemoved ==
    /\ marker
    /\ removals < MaxRemovals
    /\ marker' = FALSE
    /\ removals' = removals + 1
    /\ markerStayed' = [c \in Callers |-> FALSE]
    /\ UNCHANGED <<pc, result, err, errPath, installRuns, installActive, installsBy,
                   markerInit, markerAtFinal, concurrent>>
    /\ UNCHANGED nonInstVars

InstallNext ==
    \/ \E c \in Callers : SetupCall(c)
    \/ \E c \in Callers : SetupCheckTools(c)
    \/ \E c \in Callers : SetupCheckMarker(c)
    \/ \E c \in Callers : InstallBegin(c)
    \/ \E c \in Callers : InstallEnd(c)
    \/ \E c \in Callers : SetupRecheck(c)
    \/ MarkerRemoved

\* ========================================================================
\* YamlLanguageServer: __init__ (45-58) and _start_server (150-188)
\* ========================================================================
\* the session is caller 1 of _setup_runtime_dependencies (line 50)
Self == 1

Step(op, method) == [op |-> op, method |-> method]

\* yaml_language_server.py:164-187  the statements of _start_server, in
\* program order
StartServerSteps_StartFirst ==
    << Step("start", ""),
       Step("on_request", "client/registerCapability"),
       Step("on_notification", "window/logMessage"),
       Step("on_notification", "$/progress"),
       Step("on_notification", "textDocument/publishDiagnostics"),
       Step("initialize", ""),
       Step("checkCapabilities", ""),
       Step("initialized", ""),
       Step("setReady", "") >>

StartServerSteps_InitializedEarly ==
    << Step("on_request", "client/registerCapability"),
       Step("on_notification", "window/logMessage"),
       Step("on_notification", "$/progress"),
       Step("on_notification", "textDocument/publishDiagnostics"),
       Step("start", ""),
       Step("initialized", ""),
       Step("initialize", ""),
       Step("checkCapabilities", ""),
       Step("setReady", "") >>

StartServerSteps_ReadyEarly ==
    << Step("on_request", "client/registerCapability"),
       Step("on_notification", "window/logMessage"),
       Step("on_notification", "$/progress"),
       Step("on_notification", "textDocument/publishDiagnostics"),
       Step("setReady", ""),
       Step("start", ""),
       Step("initialize", ""),
       Step("checkCapabilities", ""),
       Step("initialized", "") >>

StartServerSteps_InitializeTwice ==
    << Step("on_request", "client/registerCapability"),
       Step("on_notification", "window/logMessage"),
       Step("on_notification", "$/progress"),
       Step("on_notification", "textDocument/publishDiagnostics"),
       Step("start", ""),
       Step("initialize", ""),
       Step("initialize", ""),
       Step("checkCapabilities", ""),
       Step("initialized", ""),
       Step("setReady", "") >>

StartServerSteps_ReadyTwice ==
    << Step("on_request", "client/registerCapability"),
       Step("on_notification", "window/logMessage"),
       Step("on_notification", "$/progress"),
       Step("on_notification", "textDocument/publishDiagnostics"),
       Step("start", ""),
       Step("initialize", ""),
       Step("setReady", ""),
       Step("checkCapabilities", ""),
       Step("initialized", ""),
       Step("setReady", "") >>

StartServerSteps_NoProgressHandler ==
    << Step("on_request", "client/registerCapability"),
       Step("on_notification", "window/logMessage"),
       Step("on_notification", "textDocument/publishDiagnostics"),
       Step("start", ""),
       Step("initialize", ""),
       Step("checkCapabilities", ""),
       Step("initialized", ""),
       Step("setReady", "") >>

StartServerSteps ==
    << Step("on_request", "client/registerCapability"),
       Step("on_notification", "window/logMessage"),
       Step("on_notification", "$/progress"),
       Step("on_notification", "textDocument/publishDiagnostics"),
       Step("start", ""),
       Step("initialize", ""),
       Step("checkCapabilities", ""),
       Step("initialized", ""),
       Step("setReady", "") >>

\* the statement _start_server is at, while it runs
AtStep(op) ==
    /\ sPhase = "starting"
    /\ sIdx <= Len(StartServerSteps)
    /\ StartServerSteps[sIdx].op = op

RegisteredMethods ==
    {StartServerSteps[i].method : i \in {j \in 1..Len(StartServerSteps) :
        StartServerSteps[j].op \in {"on_request", "on_notification"}}}

\* yaml_language_server.py:51-58  super().__init__ and the server_ready
\* event, once _setup_runtime_dependencies has returned the command
SessionConstructed ==
    /\ sPhase = "new"
    /\ pc[Self] = "returned"
    /\ sPhase' = "built"
    /\ UNCHANGED <<sIdx, handlers, sProc, sent, wire, initResp, serverReady, readySets,
                   warned, unhandled, emitted, startAttempts, sErr, deadlineExpired>>
    /\ UNCHANGED nonSessVars

\* start() of the base class calls _start_server, once per session
SessionStart ==
    /\ sPhase = "built"
    /\ startAttempts < MaxStartAttempts
    /\ startAttempts' = startAttempts + 1
    /\ sPhase' = "starting"
    /\ sIdx' = 1
    /\ UNCHANGED <<handlers, sProc, sent, wire, initResp, serverReady, readySets,
                   warned, unhandled, emitted, sErr, deadlineExpired>>
    /\ UNCHANGED nonSessVars

\* a further start() on a session that has been started is refused
SessionStartAgain ==
    /\ sPhase \in {"done", "failed", "stopped"}
    /\ startAttempts < MaxStartAttempts
    /\ startAttempts' = startAttempts + 1
    /\ UNCHANGED <<sPhase, sIdx, handlers, sProc, sent, wire, initResp, serverReady,
                   readySets, warned, unhandled, emitted, sErr, deadlineExpired>>
    /\ UNCHANGED nonSessVars

\* yaml_language_server.py:164-167  on_request / on_notification
SsRegister ==
    /\ AtStep("on_request") \/ AtStep("on_notification")
    /\ handlers' = handlers \cup {StartServerSteps[sIdx].method}
    /\ sIdx' = sIdx + 1
    /\ UNCHANGED <<sPhase, sProc, sent, wire, initResp, serverReady, readySets,
                   warned, unhandled, emitted, startAttempts, sErr, deadlineExpired>>
    /\ UNCHANGED nonSessVars

\* yaml_language_server.py:170  self.server.start(): the backend is spawned
SsStartProcess ==
    /\ AtStep("start")
    /\ sProc' = "running"
    /\ sIdx' = sIdx + 1
    /\ UNCHANGED <<sPhase, handlers, sent, wire, initResp, serverReady, readySets,
                   warned, unhandled, emitted, startAttempts, sErr, deadlineExpired>>
    /\ UNCHANGED nonSessVars

\* yaml_language_server.py:174  send.initialize(...): the request is sent
\* and the caller blocks for the response
SsSendInitialize ==
    /\ AtStep("initialize")
    /\ sent' = Append(sent, "initialize")
    /\ sPhase' = "awaiting"
    /\ initResp' = "none"
    /\ UNCHANGED <<sIdx, handlers, sProc, wire, serverReady, readySets,
                   warned, unhandled, emitted, startAttempts, sErr, deadlineExpired>>
    /\ UNCHANGED nonSessVars

\* yaml_language_server.py:174-175  send.initialize returns the response
SsInitializeReturns ==
    /\ sPhase = "awaiting"
    /\ initResp # "none"
    /\ sPhase' = "starting"
    /\ sIdx' = sIdx + 1
    /\ UNCHANGED <<handlers, sProc, sent, wire, initResp, serverReady, readySets,
                   warned, unhandled, emitted, startAttempts, sErr, deadlineExpired>>
    /\ UNCHANGED nonSessVars

\* yaml_language_server.py:150-188 has no try/except: an exception raised
\* by a call leaves _start_server and reaches the caller of start()
StartServerOnRaise_Swallow(exc) == [phase |-> "starting", err |-> "none", skip |-> 1]

StartServerOnRaise(exc) == [phase |-> "failed", err |-> exc, skip |-> 0]

\* the handshake deadline elapses with the initialize request unanswered:
\* the process is killed and send.initialize raises HandshakeTimeout
HandshakeDeadline ==
    /\ sPhase = "awaiting"
    /\ initResp = "none"
    /\ deadlineExpired' = TRUE
    /\ sProc' = "dead"
    /\ sPhase' = StartServerOnRaise("HandshakeTimeout").phase
    /\ sErr' = StartServerOnRaise("HandshakeTimeout").err
    /\ sIdx' = sIdx + StartServerOnRaise("HandshakeTimeout").skip
    /\ UNCHANGED <<handlers, sent, wire, initResp, serverReady, readySets,
                   warned, unhandled, emitted, startAttempts>>
    /\ UNCHANGED nonSessVars

\* yaml_language_server.py:177-181  the document-symbol capability of the
\* initialize response decides between an info line and a warning line in
\* the log; neither branch raises
CapabilityCheck_Strict(resp) ==
    [warn |-> resp # "symbols",
     raises |-> IF resp = "symbols" THEN "none" ELSE "CapabilityMissing"]

CapabilityCheck(resp) == [warn |-> resp # "symbols", raises |-> "none"]

\* yaml_language_server.py:177-181  _start_server goes on to the next
\* statement after the capability check
SsCheckCapabilities ==
    /\ AtStep("checkCapabilities")
    /\ warned' = CapabilityCheck(initResp).warn
    /\ IF CapabilityCheck(initResp).raises = "none"
       THEN /\ sIdx' = sIdx + 1
            /\ UNCHANGED <<sPhase, sErr>>
       ELSE /\ sPhase' = StartServerOnRaise(CapabilityCheck(initResp).raises).phase
            /\ sErr' = StartServerOnRaise(CapabilityCheck(initResp).raises).err
            /\ sIdx' = sIdx + StartServerOnRaise(CapabilityCheck(initResp).raises).skip
    /\ UNCHANGED <<handlers, sProc, sent, wire, initResp, serverReady, readySets,
                   unhandled, emitted, startAttempts, deadlineExpired>>
    /\ UNCHANGED nonSessVars

\* yaml_language_server.py:183  notify.initialized({})
SsNotifyInitialized ==
    /\ AtStep("initialized")
    /\ sent' = Append(sent, "initialized")
    /\ sIdx' = sIdx + 1
    /\ UNCHANGED <<sPhase, handlers, sProc, wire, initResp, serverReady, readySets,
                   warned, unhandled, emitted, startAttempts, sErr, deadlineExpired>>
    /\ UNCHANGED nonSessVars

\* yaml_language_server.py:187  self.server_ready.set()
SsSetReady ==
    /\ AtStep("setReady")
    /\ serverReady' = TRUE
    /\ readySets' = readySets + 1
    /\ sIdx' = sIdx + 1
    /\ UNCHANGED <<sPhase, handlers, sProc, sent, wire, initResp, warned, unhandled,
                   emitted, startAttempts, sErr, deadlineExpired>>
    /\ UNCHANGED nonSessVars

\* yaml_language_server.py:188  _start_server returns
SsReturn ==
    /\ sPhase = "starting"
    /\ sIdx > Len(StartServerSteps)
    /\ sPhase' = "done"
    /\ UNCHANGED <<sIdx, handlers, sProc, sent, wire, initResp, serverReady, readySets,
                   warned, unhandled, emitted, startAttempts, sErr, deadlineExpired>>
    /\ UNCHANGED nonSessVars

\* the methods a backend sends without being asked
UnsolicitedMethods ==
    {"client/registerCapability", "window/logMessage", "$/progress",
     "textDocument/publishDiagnostics"}

\* the backend sends a request or notification of its own, any time after
\* it was spawned
BackendEmit ==
    /\ sProc = "running"
    /\ emitted < MaxBackendMsgs
    /\ \E m \in UnsolicitedMethods : wire' = Append(wire, m)
    /\ emitted' = emitted + 1
    /\ UNCHANGED <<sPhase, sIdx, handlers, sProc, sent, initResp, serverReady, readySets,
                   warned, unhandled, startAttempts, sErr, deadlineExpired>>
    /\ UNCHANGED nonSessVars

Count(seq, x) == Cardinality({i \in 1..Len(seq) : seq[i] = x})

\* the backend answers an initialize request, advertising document symbols
\* or not
BackendRespond ==
    /\ sProc = "running"
    /\ sPhase = "awaiting"
    /\ initResp = "none"
    /\ Count(wire, "response:symbols") + Count(wire, "response:nosymbols") = 0
    /\ \E r \in {"response:symbols", "response:nosymbols"} : wire' = Append(wire, r)
    /\ UNCHANGED <<sPhase, sIdx, handlers, sProc, sent, initResp, serverReady, readySets,
                   warned, unhandled, emitted, startAttempts, sErr, deadlineExpired>>
    /\ UNCHANGED nonSessVars

\* the reader dispatches the next message of the backend: a response goes
\* to the pending request, a request or notification to its handler, and a
\* method without a handler is an error
Dispatch ==
    /\ sProc = "running"
    /\ wire # <<>>
    /\ wire' = Tail(wire)
    /\ LET m == Head(wire) IN
         IF m = "response:symbols" THEN initResp' = "symbols" /\ unhandled' = unhandled
         ELSE IF m = "response:nosymbols" THEN initResp' = "nosymbols" /\ unhandled' = unhandled
         ELSE /\ initResp' = initResp
              /\ unhandled' = IF m \in handlers THEN unhandled ELSE unhandled \cup {m}
    /\ UNCHANGED <<sPhase, sIdx, handlers, sProc, sent, serverReady, readySets,
                   warned, emitted, startAttempts, sErr, deadlineExpired>>
    /\ UNCHANGED nonSessVars

\* shutdown of a ready session ends the backend
Shutdown ==
    /\ sPhase = "done"
    /\ sPhase' = "stopped"
    /\ sProc' = IF sProc = "running" THEN "dead" ELSE sProc
    /\ UNCHANGED <<sIdx, handlers, sent, wire, initResp, serverReady, readySets,
                   warned, unhandled, emitted, startAttempts, sErr, deadlineExpired>>
    /\ UNCHANGED nonSessVars

\* the lifecycle state an observer of the session sees
LifecycleState ==
    IF pc[Self] = "failed" \/ sPhase = "failed" THEN "Failed"
    ELSE IF sPhase = "stopped" THEN "Terminated"
    ELSE IF serverReady THEN "Ready"
    ELSE IF sProc # "none" \/ sent # <<>> THEN "Handshaking"
    ELSE IF pc[Self] = "returned" THEN "Launching"
    ELSE IF pc[Self] # "idle" THEN "Installing"
    ELSE "NotStarted"

SessionNext ==
    \/ SetupCall(Self)
    \/ SetupCheckTools(Self)
    \/ SetupCheckMarker(Self)
    \/ InstallBegin(Self)
    \/ InstallEnd(Self)
    \/ SetupRecheck(Self)
    \/ MarkerRemoved
    \/ SessionConstructed
    \/ SessionStart
    \/ SessionStartAgain
    \/ SsRegister
    \/ SsStartProcess
    \/ SsSendInitialize
    \/ SsInitializeReturns
    \/ HandshakeDeadline
    \/ SsCheckCapabilities
    \/ SsNotifyInitialized
    \/ SsSetReady
    \/ SsReturn
    \/ BackendEmit
    \/ BackendRespond
    \/ Dispatch
    \/ Shutdown

CaptureNext ==
    \/ RcSpawn
    \/ RcSpawnFail
    \/ ChildWrite
    \/ ChildCloseStdout
    \/ ChildExit
    \/ RcReadEof
    \/ RcReadTimeout
    \/ RcReadError
    \/ RcGraceWaitDone
    \/ RcGraceWaitExpired
    \/ RcKillWaitDone
    \/ RcCancel

\* ========================================================================
\* find_executable / require_executable (exec.py:19-49)
\* ========================================================================
\* the executable the resolvers are applied to
Base == "serena"

\* the file names a lookup of Base can meet
BaseNames == {Base, Base \o ".exe"}

\* exec.py:19-22  the names to try, in order
CandidateNames_BareFirst(base) == IF osNt THEN <<base, base \o ".exe">> ELSE <<base>>

CandidateNames(base) == IF osNt THEN <<base \o ".exe", base>> ELSE <<base>>

\* exec.py:36  the directory of the running Python
PyDir == "/venv/bin"

\* the first of `names` that is in `present`, "None" when there is none: the
\* two for-loops of find_executable return at their first hit
FirstIn(names, present) ==
    LET hits == {i \in 1..Len(names) : names[i] \in present}
    IN  IF hits = {} THEN "None"
        ELSE names[CHOOSE i \in hits : \A j \in hits : i <= j]

\* exec.py:25-42
FindExecutable(base) ==
    LET onPath == FirstIn(CandidateNames(base), whichFinds)
        inDir == FirstIn(CandidateNames(base), pyDirHas)
    IN  IF onPath # "None" THEN WhichPath(onPath)
        ELSE IF inDir # "None" THEN PyDir \o "/" \o inDir
        ELSE "None"

\* exec.py:45-49  the path, or FileNotFoundError whose message names the
\* places that were searched
RequireExecutable_NoRaise(base) ==
    [path |-> FindExecutable(base), err |-> "none", tried |-> {}]

RequireExecutable(base) ==
    IF FindExecutable(base) = "None"
    THEN [path |-> "None", err |-> "FileNotFoundError", tried |-> {"PATH", "PyDir"}]
    ELSE [path |-> FindExecutable(base), err |-> "none", tried |-> {}]

\* exec.py:25  find_executable(Base) is called
ApplyFindExecutable ==
    /\ feOut = "unset"
    /\ feOut' = FindExecutable(Base)
    /\ UNCHANGED <<reqOut, feipOut>>
    /\ UNCHANGED nonResVars

\* exec.py:45  require_executable(Base) is called
ApplyRequireExecutable ==
    /\ reqOut.err = "unset"
    /\ reqOut' = RequireExecutable(Base)
    /\ UNCHANGED <<feOut, feipOut>>
    /\ UNCHANGED nonResVars

\* subprocess_util.py:54  find_executable_in_path(Base) is called
ApplyFindExecutableInPath ==
    /\ feipOut = "unset"
    /\ feipOut' = FindExecutableInPath(Base)
    /\ UNCHANGED <<feOut, reqOut>>
    /\ UNCHANGED nonResVars

ResolveNext ==
    \/ ApplyFindExecutable
    \/ ApplyRequireExecutable
    \/ ApplyFindExecutableInPath

\* ========================================================================
\* run_stream_lines and the background-task set (exec.py:11-16, 88-113)
\* ========================================================================
\* exec.py:15  _BACKGROUND_TASKS.add(task)
TrackBackgroundTask(tasks, t) == tasks \cup {t}

\* exec.py:16  the done callback of the task: _BACKGROUND_TASKS.discard
OnPumpDone_NoDiscard(tasks, t) == tasks

OnPumpDone(tasks, t) == tasks \ {t}

\* the streamed child writes one more line to its output
ChildWriteLine(s) ==
    /\ chState[s] = "running"
    /\ chWritten[s] < MaxLines
    /\ chWritten' = [chWritten EXCEPT ![s] = @ + 1]
    /\ UNCHANGED <<mcpProc, hPc, nStreams, chState, chBehaviour, termSent, killTried,
                   stopped, pump, pumpEnd, invoked, bgTasks, captures, errorsLogged,
                   appAlive, shutdownDone, afterShutdown, refusals, actionsDone, lastButton, savedTransport>>
    /\ UNCHANGED nonTuiVars

\* the streamed child exits, closing its output: by itself or on SIGTERM,
\* at a moment of its choosing; a child that ignores SIGTERM and does not
\* end by itself stays
ChildExits(s) ==
    /\ chState[s] = "running"
    /\ chBehaviour[s] = "exits"
    /\ chState' = [chState EXCEPT ![s] = "exited"]
    /\ UNCHANGED <<mcpProc, hPc, nStreams, chBehaviour, chWritten, termSent, killTried,
                   stopped, pump, pumpEnd, invoked, bgTasks, captures, errorsLogged,
                   appAlive, shutdownDone, afterShutdown, refusals, actionsDone, lastButton, savedTransport>>
    /\ UNCHANGED nonTuiVars

\* exec.py:106-109  readline returned a line and on_line is called with it;
\* an exception of on_line is not caught and ends the pump task
PumpDeliver(s) ==
    /\ pump[s] = "running"
    /\ Len(invoked[s]) < chWritten[s]
    /\ invoked' = [invoked EXCEPT ![s] = Append(@, Len(@) + 1)]
    /\ afterShutdown' = (afterShutdown \/ shutdownDone)
    /\ \E raises \in BOOLEAN :
          IF raises
          THEN /\ pump' = [pump EXCEPT ![s] = "done"]
               /\ pumpEnd' = [pumpEnd EXCEPT ![s] = "error"]
          ELSE UNCHANGED <<pump, pumpEnd>>
    /\ UNCHANGED <<mcpProc, hPc, nStreams, chState, chBehaviour, chWritten, termSent,
                   killTried, stopped, bgTasks, captures, errorsLogged, refusals, appAlive,
                   shutdownDone, actionsDone, lastButton, savedTransport>>
    /\ UNCHANGED nonTuiVars

\* exec.py:106-108  readline returned b"" at end-of-file: the loop breaks
PumpEof(s) ==
    /\ pump[s] = "running"
    /\ chState[s] = "exited"
    /\ Len(invoked[s]) = chWritten[s]
    /\ pump' = [pump EXCEPT ![s] = "done"]
    /\ pumpEnd' = [pumpEnd EXCEPT ![s] = "eof"]
    /\ UNCHANGED <<mcpProc, hPc, nStreams, chState, chBehaviour, chWritten, termSent,
                   killTried, stopped, invoked, bgTasks, captures, errorsLogged, appAlive,
                   shutdownDone, afterShutdown, refusals, actionsDone, lastButton, savedTransport>>
    /\ UNCHANGED nonTuiVars

\* app.py:317  App.run() returns once the app has shut down and the event
\* loop cancels the tasks that are still pending
PumpCancelled(s) ==
    /\ pump[s] = "running"
    /\ shutdownDone
    /\ pump' = [pump EXCEPT ![s] = "done"]
    /\ pumpEnd' = [pumpEnd EXCEPT ![s] = "cancelled"]
    /\ UNCHANGED <<mcpProc, hPc, nStreams, chState, chBehaviour, chWritten, termSent,
                   killTried, stopped, invoked, bgTasks, captures, errorsLogged, appAlive,
                   shutdownDone, afterShutdown, refusals, actionsDone, lastButton, savedTransport>>
    /\ UNCHANGED nonTuiVars

\* exec.py:16  the event loop runs the done callback of a finished pump
PumpDoneCallback(s) ==
    /\ pump[s] = "done"
    /\ pump' = [pump EXCEPT ![s] = "removed"]
    /\ bgTasks' = OnPumpDone(bgTasks, s)
    /\ UNCHANGED <<mcpProc, hPc, nStreams, chState, chBehaviour, chWritten, termSent,
                   killTried, stopped, pumpEnd, invoked, captures, errorsLogged, appAlive,
                   shutdownDone, afterShutdown, refusals, actionsDone, lastButton, savedTransport>>
    /\ UNCHANGED nonTuiVars

\* ========================================================================
\* SerenaTuiApp (app.py:195-315)
\* ========================================================================
SerenaExe == "serena"

McpExe == "serena-mcp-server"

\* app.py:306-307  an exception of a button action is written to the log
\* and the handler returns
OnButtonException_Propagate(exc) == [logged |-> 0, alive |-> FALSE]

OnButtonException(exc) == [logged |-> 1, alive |-> TRUE]

\* the app takes a button or key action: it is running, no handler is in
\* progress, and it has not shut down
CanHandle ==
    /\ appAlive /\ ~shutdownDone
    /\ hPc = "idle"
    /\ actionsDone < MaxActions

\* app.py:205  `if self._mcp_proc is not None`
AlreadyRunning_Never(handle) == FALSE

AlreadyRunning(handle) == handle # 0

\* app.py:204-218, 296-297  Start MCP up to the launch of the child: the
\* transport selected in the UI is synced into the state and saved first
StartMcpBegin ==
    /\ CanHandle
    /\ nStreams < MaxStreams
    /\ actionsDone' = actionsDone + 1
    /\ lastButton' = "start"
    /\ IF AlreadyRunning(mcpProc)
       THEN /\ refusals' = refusals + 1
            /\ UNCHANGED <<hPc, errorsLogged, appAlive, savedTransport>>
       ELSE /\ savedTransport' \in {"stdio", "sse"}
            /\ UNCHANGED refusals
            /\ IF savedTransport' = "stdio"
               THEN UNCHANGED <<hPc, errorsLogged, appAlive>>
               ELSE IF RequireExecutable(McpExe).err # "none"
               THEN /\ errorsLogged' = errorsLogged
                             + OnButtonException(RequireExecutable(McpExe).err).logged
                    /\ appAlive' = OnButtonException(RequireExecutable(McpExe).err).alive
                    /\ UNCHANGED hPc
               ELSE /\ hPc' = "spawning"
                    /\ UNCHANGED <<errorsLogged, appAlive>>
    /\ UNCHANGED <<mcpProc, nStreams, chState, chBehaviour, chWritten, termSent, killTried,
                   stopped, pump, pumpEnd, invoked, bgTasks, captures, shutdownDone,
                   afterShutdown>>
    /\ UNCHANGED nonTuiVars

\* exec.py:94-101  create_subprocess_exec has created the child, which runs
\* from now on; the coroutine is resumed by the loop in a later step
StartMcpSpawned ==
    /\ hPc = "spawning"
    /\ nStreams < MaxStreams
    /\ \E b \in {"exits", "ignoresTerm"} :
          chBehaviour' = [chBehaviour EXCEPT ![nStreams + 1] = b]
    /\ nStreams' = nStreams + 1
    /\ chState' = [chState EXCEPT ![nStreams + 1] = "running"]
    /\ hPc' = "spawned"
    /\ UNCHANGED <<mcpProc, chWritten, termSent, killTried, stopped, pump, pumpEnd,
                   invoked, bgTasks, captures, errorsLogged, appAlive, shutdownDone,
                   afterShutdown, refusals, actionsDone, lastButton, savedTransport>>
    /\ UNCHANGED nonTuiVars

\* exec.py:103-113  between the creation of the child and `return proc`
\* there is no await: the return waits for nothing the child does
ReturnsAfterSpawn_AwaitsExit(s) == chState[s] = "exited"

ReturnsAfterSpawn(s) == TRUE

\* exec.py:111-113, app.py:246-247  the pump task is created and tracked
\* (it runs once the handler yields), the handle is returned and kept in
\* _mcp_proc
StartMcpReturned ==
    /\ hPc = "spawned"
    /\ ReturnsAfterSpawn(nStreams)
    /\ pump' = [pump EXCEPT ![nStreams] = "running"]
    /\ bgTasks' = TrackBackgroundTask(bgTasks, nStreams)
    /\ mcpProc' = nStreams
    /\ hPc' = "idle"
    /\ UNCHANGED <<nStreams, chState, chBehaviour, chWritten, termSent, killTried, stopped,
                   pumpEnd, invoked, captures, errorsLogged, appAlive, shutdownDone,
                   afterShutdown, refusals, actionsDone, lastButton, savedTransport>>
    /\ UNCHANGED nonTuiVars

\* exec.py:94-101  create_subprocess_exec raises: no child, no pump
StartMcpSpawnFails ==
    /\ hPc = "spawning"
    /\ hPc' = "idle"
    /\ errorsLogged' = errorsLogged + OnButtonException("OSError").logged
    /\ appAlive' = OnButtonException("OSError").alive
    /\ UNCHANGED <<mcpProc, nStreams, chState, chBehaviour, chWritten, termSent, killTried,
                   stopped, pump, pumpEnd, invoked, bgTasks, captures, shutdownDone,
                   afterShutdown, refusals, actionsDone, lastButton, savedTransport>>
    /\ UNCHANGED nonTuiVars

\* app.py:195-199, 272-305  a button that runs a serena command, up to the
\* launch of the child of run_capture
RunSerenaBegin ==
    /\ CanHandle
    /\ actionsDone' = actionsDone + 1
    /\ lastButton' = "run"
    /\ IF RequireExecutable(SerenaExe).err # "none"
       THEN /\ errorsLogged' = errorsLogged
                    + OnButtonException(RequireExecutable(SerenaExe).err).logged
            /\ appAlive' = OnButtonException(RequireExecutable(SerenaExe).err).alive
            /\ UNCHANGED <<hPc, captures>>
       ELSE /\ hPc' = "capturing"
            /\ captures' = captures + 1
            /\ UNCHANGED <<errorsLogged, appAlive>>
    /\ UNCHANGED <<mcpProc, nStreams, chState, chBehaviour, chWritten, termSent, killTried,
                   stopped, pump, pumpEnd, invoked, bgTasks, shutdownDone, afterShutdown, refusals,
                   savedTransport>>
    /\ UNCHANGED nonTuiVars

\* app.py:199-202  run_capture returned and the output is logged, or it
\* raised and the exception is logged
RunSerenaDone ==
    /\ hPc = "capturing"
    /\ hPc' = "idle"
    /\ \E raised \in BOOLEAN :
          IF raised
          THEN /\ errorsLogged' = errorsLogged + OnButtonException("OSError").logged
               /\ appAlive' = OnButtonException("OSError").alive
          ELSE UNCHANGED <<errorsLogged, appAlive>>
    /\ UNCHANGED <<mcpProc, nStreams, chState, chBehaviour, chWritten, termSent, killTried,
                   stopped, pump, pumpEnd, invoked, bgTasks, captures, shutdownDone,
                   afterShutdown, refusals, actionsDone, lastButton, savedTransport>>
    /\ UNCHANGED nonTuiVars

\* app.py:249-261  Stop MCP: terminate() on the handle, kill() only when
\* terminate() raises, which it does when the loop has already seen the
\* child exit; then the handle is dropped
ActionStopMcp ==
    /\ CanHandle
    /\ actionsDone' = actionsDone + 1
    /\ lastButton' = "stop"
    /\ IF mcpProc = 0
       THEN UNCHANGED <<mcpProc, termSent, killTried, stopped>>
       ELSE /\ mcpProc' = 0
            /\ stopped' = [stopped EXCEPT ![mcpProc] = TRUE]
            /\ IF chState[mcpProc] = "running"
               THEN /\ termSent' = [termSent EXCEPT ![mcpProc] = TRUE]
                    /\ UNCHANGED killTried
               ELSE /\ \E terminateRaises \in BOOLEAN :
                          killTried' = [killTried EXCEPT ![mcpProc] = terminateRaises]
                    /\ UNCHANGED termSent
    /\ UNCHANGED <<hPc, nStreams, chState, chBehaviour, chWritten, pump, pumpEnd, invoked,
                   bgTasks, captures, errorsLogged, appAlive, shutdownDone, afterShutdown, refusals,
                   savedTransport>>
    /\ UNCHANGED nonTuiVars

\* app.py:309-315  on_shutdown: terminate() on the handle still held
OnShutdown ==
    /\ appAlive /\ ~shutdownDone
    /\ hPc = "idle"
    /\ shutdownDone' = TRUE
    /\ IF mcpProc # 0 /\ chState[mcpProc] = "running"
       THEN termSent' = [termSent EXCEPT ![mcpProc] = TRUE]
       ELSE UNCHANGED termSent
    /\ UNCHANGED <<mcpProc, hPc, nStreams, chState, chBehaviour, chWritten, killTried,
                   stopped, pump, pumpEnd, invoked, bgTasks, captures, errorsLogged,
                   appAlive, afterShutdown, refusals, actionsDone, lastButton, savedTransport>>
    /\ UNCHANGED nonTuiVars

TuiNext ==
    \/ StartMcpBegin
    \/ StartMcpSpawned
    \/ StartMcpReturned
    \/ StartMcpSpawnFails
    \/ RunSerenaBegin
    \/ RunSerenaDone
    \/ ActionStopMcp
    \/ OnShutdown
    \/ \E s \in Streams : ChildWriteLine(s)
    \/ \E s \in Streams : ChildExits(s)
    \/ \E s \in Streams : PumpDeliver(s)
    \/ \E s \in Streams : PumpEof(s)
    \/ \E s \in Streams : PumpCancelled(s)
    \/ \E s \in Streams : PumpDoneCallback(s)

\* ========================================================================
\* _determine_log_level (yaml_language_server.py:29-43)
\* ========================================================================
\* the words a stderr line is made of, the known phrases in two spellings
Words ==
    {"cannot find module", "Cannot Find Module", "package.json", "PACKAGE.JSON",
     "no parser", "No Parser", "error", "started"}

\* str.lower() of a word
Lower(w) ==
    CASE w = "Cannot Find Module" -> "cannot find module"
      [] w = "PACKAGE.JSON" -> "package.json"
      [] w = "No Parser" -> "no parser"
      [] w = "No" -> "no"
      [] w = "ON" -> "on"
      [] OTHER -> w

\* yaml_language_server.py:32  line.lower()
LineLower(line) == [i \in 1..Len(line) |-> Lower(line[i])]

\* `phrase in line`
Contains(line, phrase) == \E i \in 1..Len(line) : line[i] = phrase

\* yaml_language_server.py:43  the classifier of the base class, applied to
\* the line as received: error lines are errors, the rest information
SolidDetermineLogLevel(line) ==
    IF Contains(LineLower(line), "error") THEN "ERROR" ELSE "INFO"

\* yaml_language_server.py:29-43
DetermineLogLevel_CaseSensitive(line) ==
    IF \/ Contains(line, "cannot find module") /\ Contains(line, "package.json")
       \/ Contains(line, "no parser")
    THEN "DEBUG"
    ELSE SolidDetermineLogLevel(line)

DetermineLogLevel(line) ==
    LET line_lower == LineLower(line)
    IN  IF \/ Contains(line_lower, "cannot find module") /\ Contains(line_lower, "package.json")
           \/ Contains(line_lower, "no parser")
        THEN "DEBUG"
        ELSE SolidDetermineLogLevel(line)

\* a stderr line is classified
Classify ==
    /\ clLevel = "unset"
    /\ clLevel' = DetermineLogLevel(clLine)
    /\ UNCHANGED clLine
    /\ UNCHANGED nonClsVars

ClassifyNext == Classify

\* ========================================================================
\* find_project_root (project.py:6-24)
\* ========================================================================
\* a for-loop over [current, *current.parents] that returns at the first
\* directory in `hits`; NoRoot when the loop ends without returning
FirstLevelIn(hits) ==
    IF hits = {} THEN NoRoot
    ELSE CHOOSE d \in hits : \A e \in hits : d <= e

\* project.py:6-24
FindProjectRoot_SinglePass ==
    LET either == {d \in Levels : prYml[d] = "file" \/ d \in prGit}
    IN  IF either # {} THEN FirstLevelIn(either) ELSE 0

FindProjectRoot ==
    LET serena == FirstLevelIn({d \in Levels : prYml[d] = "file"})
        git == FirstLevelIn({d \in Levels : d \in prGit})
    IN  IF serena # NoRoot THEN serena
        ELSE IF git # NoRoot THEN git
        ELSE 0

\* find_project_root(start) is called
ApplyFindProjectRoot ==
    /\ prRoot = NoRoot
    /\ prRoot' = FindProjectRoot
    /\ UNCHANGED <<prYml, prGit>>
    /\ UNCHANGED nonProjVars

ProjectNext == ApplyFindProjectRoot

\* ========================================================================
\* PerformanceTracker (test/harness/performance.py:123-161, 244-259)
\* ========================================================================
\* performance.py:159-161  the PerformanceMetrics a context of `operation`
\* adds its sample to: the one stored under that name
MetricsFor_Shared(operation) == "fast_op"

MetricsFor(operation) == operation

\* performance.py:149-161  track(operation): the metrics of a new name are
\* created, and a context bound to the metrics of the name is returned
Track(o) ==
    /\ tkCreated < MaxContexts
    /\ tkCreated' = tkCreated + 1
    /\ tkKnown' = tkKnown \cup {o}
    /\ tkCtx' = [tkCtx EXCEPT ![tkCreated + 1] = [op |-> o, st |-> "created"]]
    /\ UNCHANGED <<tkSamples, tkExited>>
    /\ UNCHANGED nonTrkVars

\* performance.py:251-254  __enter__: the start time is taken
ContextEnter(i) ==
    /\ tkCtx[i].st = "created"
    /\ tkCtx' = [tkCtx EXCEPT ![i].st = "entered"]
    /\ UNCHANGED <<tkKnown, tkSamples, tkCreated, tkExited>>
    /\ UNCHANGED nonTrkVars

\* performance.py:256-259, 91-93  __exit__, with or without an exception in
\* the body: the duration is appended to the samples of the context's
\* metrics
ContextExit(i) ==
    /\ tkCtx[i].st = "entered"
    /\ tkCtx' = [tkCtx EXCEPT ![i].st = "exited"]
    /\ tkSamples' = [tkSamples EXCEPT ![MetricsFor(tkCtx[i].op)] = @ + 1]
    /\ tkExited' = [tkExited EXCEPT ![tkCtx[i].op] = @ + 1]
    /\ UNCHANGED <<tkKnown, tkCreated>>
    /\ UNCHANGED nonTrkVars

\* performance.py:163-165, 34-36  get_metrics(operation).count, 0 when the
\* name has no metrics
SampleCount(o) == IF o \in tkKnown THEN tkSamples[o] ELSE 0

TrackerNext ==
    \/ \E o \in Operations : Track(o)
    \/ \E i \in Contexts : ContextEnter(i)
    \/ \E i \in Contexts : ContextExit(i)

\* ========================================================================
\* SerenaTuiState (state.py:9-108)
\* ========================================================================
\* state.py:8
STATE_VERSION == 2

\* state.py:40-43  the defaults of context, transport, host and port
DefaultContext == "ide-assistant"

DefaultTransport == "streamable-http"

DefaultHost == "127.0.0.1"

DefaultPort == 8000

\* the project root save and load are called with, as str(project_root)
ProjectRoot == "/work/proj"

\* state.py:32-46  SerenaTuiState(lastProjectRoot=root): every other field
\* at its default; "None" stands for None
DefaultState(root) ==
    [version |-> STATE_VERSION,
     lastProjectRoot |-> root,
     context |-> DefaultContext,
     modes |-> <<>>,
     transport |-> DefaultTransport,
     host |-> DefaultHost,
     port |-> DefaultPort,
     disableDashboard |-> TRUE,
     disableGuiLogWindow |-> TRUE]

\* JSON values as json.dumps writes them and json.loads returns them: the
\* type of the value and the value
JNull == [t |-> "null"]

JStr(x) == [t |-> "str", v |-> x]

JInt(n) == [t |-> "int", v |-> n]

JBool(b) == [t |-> "bool", v |-> b]

JList(l) == [t |-> "list", v |-> l]

\* str.strip(): leading and trailing blanks removed
RECURSIVE LStrip(_)
LStrip(x) ==
    IF Len(x) > 0 /\ SubSeq(x, 1, 1) = " " THEN LStrip(SubSeq(x, 2, Len(x))) ELSE x

RECURSIVE RStrip(_)
RStrip(x) ==
    IF Len(x) > 0 /\ SubSeq(x, Len(x), Len(x)) = " "
    THEN RStrip(SubSeq(x, 1, Len(x) - 1))
    ELSE x

Strip(x) == RStrip(LStrip(x))

\* str.split(","): the pieces between the commas, empty pieces included
RECURSIVE SplitComma(_)
SplitComma(x) ==
    LET cut == {i \in 1..Len(x) : SubSeq(x, i, i) = ","}
    IN  IF cut = {} THEN <<x>>
        ELSE LET i == CHOOSE c \in cut : \A d \in cut : c <= d
             IN  <<SubSeq(x, 1, i - 1)>> \o SplitComma(SubSeq(x, i + 1, Len(x)))

\* int(text) for a text of decimal digits; Unbound when int() raises
DigitTexts == <<"0", "1", "2", "3", "4", "5", "6", "7", "8", "9">>

DigitOf(c) == (CHOOSE i \in 1..10 : DigitTexts[i] = c) - 1

RECURSIVE DigitsValue(_)
DigitsValue(x) ==
    IF Len(x) = 0 THEN 0
    ELSE 10 * DigitsValue(SubSeq(x, 1, Len(x) - 1)) + DigitOf(SubSeq(x, Len(x), Len(x)))

ParseInt(x) ==
    LET y == Strip(x)
    IN  IF Len(y) > 0 /\ \A i \in 1..Len(y) : \E k \in 1..10 : DigitTexts[k] = SubSeq(y, i, i)
        THEN DigitsValue(y)
        ELSE Unbound

\* the truth value of a JSON value in `value or default`
Truthy(j) ==
    CASE j.t = "null" -> FALSE
      [] j.t = "str" -> j.v # ""
      [] j.t = "int" -> j.v # 0
      [] j.t = "bool" -> j.v
      [] j.t = "list" -> j.v # <<>>

\* str(value) of a JSON value that is a text, a truth value or null
PyStr(j) ==
    CASE j.t = "str" -> j.v
      [] j.t = "bool" -> (IF j.v THEN "True" ELSE "False")
      [] OTHER -> "None"

\* state.py:12-16  _safe_int
SafeInt(j, default) ==
    CASE j.t = "int" -> j.v
      [] j.t = "bool" -> (IF j.v THEN 1 ELSE 0)
      [] j.t = "str" -> (IF ParseInt(j.v) = Unbound THEN default ELSE ParseInt(j.v))
      [] OTHER -> default

\* state.py:19-28  _safe_bool
SafeBool(j, default) ==
    IF j.t = "bool" THEN j.v
    ELSE IF j.t = "str" /\ Lower(Strip(j.v)) \in {"true", "1", "yes", "y", "on"} THEN TRUE
    ELSE IF j.t = "str" /\ Lower(Strip(j.v)) \in {"false", "0", "no", "n", "off"} THEN FALSE
    ELSE default

\* state.py:49-60  to_json_dict
ToJsonDict(o) ==
    [version |-> JInt(o.version),
     lastProjectRoot |-> (IF o.lastProjectRoot = "None" THEN JNull
                          ELSE JStr(o.lastProjectRoot)),
     context |-> JStr(o.context),
     modes |-> JList([i \in 1..Len(o.modes) |-> JStr(o.modes[i])]),
     transport |-> JStr(o.transport),
     host |-> JStr(o.host),
     port |-> JInt(o.port),
     disableDashboard |-> JBool(o.disableDashboard),
     disableGuiLogWindow |-> JBool(o.disableGuiLogWindow)]

\* state.py:69  an entry of a modes list is kept as str(x), when it is not
\* blank
ModeOfEntry_Stripped(j) == Strip(PyStr(j))

ModeOfEntry(j) == PyStr(j)

\* `x or default` followed by str()
StrOr(j, default) == IF Truthy(j) THEN PyStr(j) ELSE default

\* state.py:65-71  the modes of a JSON object: a comma-separated text, a
\* list, or anything else
ModesFromJson(j) ==
    IF j.t = "str"
    THEN LET pieces == SplitComma(j.v)
             stripped == [i \in 1..Len(pieces) |-> Strip(pieces[i])]
         IN  SelectSeq(stripped, LAMBDA m : m # "")
    ELSE IF j.t = "list"
    THEN LET kept == SelectSeq(j.v, LAMBDA x : Strip(PyStr(x)) # "")
         IN  [i \in 1..Len(kept) |-> ModeOfEntry(kept[i])]
    ELSE <<>>

\* state.py:62-83  from_json_dict; a key that is missing reads as null
FromJsonDict(data) ==
    [version |-> SafeInt(data.version, STATE_VERSION),
     lastProjectRoot |-> (IF data.lastProjectRoot.t = "null" THEN "None"
                          ELSE PyStr(data.lastProjectRoot)),
     context |-> StrOr(data.context, DefaultContext),
     modes |-> ModesFromJson(data.modes),
     transport |-> StrOr(data.transport, DefaultTransport),
     host |-> StrOr(data.host, DefaultHost),
     port |-> SafeInt(data.port, DefaultPort),
     disableDashboard |-> SafeBool(data.disableDashboard, TRUE),
     disableGuiLogWindow |-> SafeBool(data.disableGuiLogWindow, TRUE)]

\* the state file: absent, holding a JSON object, or holding something
\* json.loads rejects or that is no object ("garbage")
EmptyObject ==
    [version |-> JNull, lastProjectRoot |-> JNull, context |-> JNull, modes |-> JNull,
     transport |-> JNull, host |-> JNull, port |-> JNull, disableDashboard |-> JNull,
     disableGuiLogWindow |-> JNull]

NoFile == [kind |-> "absent", data |-> EmptyObject]

GarbageFile == [kind |-> "garbage", data |-> EmptyObject]

\* state.py:64  a file as the older wrapper wrote it: few keys, the modes as
\* one text, texts for numbers and flags
LegacyFile ==
    [kind |-> "object",
     data |-> [EmptyObject EXCEPT !.context = JStr(""),
                                  !.modes = JStr(" a, ,b"),
                                  !.transport = JStr("sse"),
                                  !.port = JStr(" 8080 "),
                                  !.disableDashboard = JStr(" No"),
                                  !.disableGuiLogWindow = JStr("maybe")]]

\* state.py:89-102  load(project_root) applied to the file
LoadFrom(file, root) ==
    IF file.kind = "object"
    THEN [FromJsonDict(file.data) EXCEPT !.lastProjectRoot = root]
    ELSE DefaultState(root)

\* state.py:104-108  save(project_root): lastProjectRoot is set, then the
\* object is written to the file
StateSave ==
    /\ stPc \in {"new", "opened", "loaded"}
    /\ stObj' = [stObj EXCEPT !.lastProjectRoot = ProjectRoot]
    /\ stFile' = [kind |-> "object", data |-> ToJsonDict(stObj')]
    /\ stSaved' = stObj'
    /\ stPc' = "saved"
    /\ UNCHANGED stCycles
    /\ UNCHANGED nonStVars

\* state.py:89-102  load(project_root); app.py:99, 183 the object returned
\* replaces the one the program held
StateLoad ==
    /\ stPc \in {"new", "saved"}
    /\ stCycles < MaxLoads
    /\ stObj' = LoadFrom(stFile, ProjectRoot)
    /\ stPc' = IF stPc = "saved" THEN "loaded" ELSE "opened"
    /\ stCycles' = stCycles + 1
    /\ UNCHANGED <<stFile, stSaved>>
    /\ UNCHANGED nonStVars

StateNext ==
    \/ StateSave
    \/ StateLoad

\* the texts and lists the fields of a SerenaTuiState are drawn from
FieldTexts == {"", " ", "x"}

ModeTexts == {"", " ", "a", " b"}

RECURSIVE ModeLists(_)
ModeLists(n) ==
    IF n = 0 THEN {<<>>}
    ELSE ModeLists(n - 1) \cup {Append(l, m) : l \in {k \in ModeLists(n - 1) : Len(k) = n - 1},
                                               m \in ModeTexts}

\* ========================================================================
\* Specifications
\* ========================================================================
\* one run_capture call and its child; no installer call, no session
InitCapture ==
    /\ rcPc = "idle"
    /\ rcTimeout \in {"None", "set"}
    /\ proc = "none"
    /\ exitBy = "none"
    /\ killSent = FALSE
    /\ stdoutEof = FALSE
    /\ written = 0
    /\ output = Unbound
    /\ rc = "unset"
    /\ rcExc = "none"
    /\ timedOut = FALSE
    /\ seenAtTimeout = 0
    /\ osNt = FALSE
    /\ whichFinds = Tools
    /\ whereRun = [rc |-> 1, out |-> <<>>]
    /\ pc = [c \in Callers |-> "idle"]
    /\ marker = FALSE
    /\ result = [c \in Callers |-> "none"]
    /\ err = [c \in Callers |-> "none"]
    /\ errPath = [c \in Callers |-> "none"]
    /\ installRuns = 0
    /\ installActive = 0
    /\ installsBy = [c \in Callers |-> 0]
    /\ markerInit = marker
    /\ markerStayed = [c \in Callers |-> FALSE]
    /\ markerAtFinal = [c \in Callers |-> FALSE]
    /\ removals = 0
    /\ concurrent = FALSE
    /\ sPhase = "new"
    /\ sIdx = 1
    /\ handlers = {}
    /\ sProc = "none"
    /\ sent = <<>>
    /\ wire = <<>>
    /\ initResp = "none"
    /\ serverReady = FALSE
    /\ readySets = 0
    /\ warned = FALSE
    /\ unhandled = {}
    /\ emitted = 0
    /\ startAttempts = 0
    /\ sErr = "none"
    /\ deadlineExpired = FALSE
    /\ pyDirHas = {}
    /\ feOut = "unset"
    /\ reqOut = [path |-> "unset", err |-> "unset", tried |-> {}]
    /\ feipOut = "unset"
    /\ mcpProc = 0
    /\ hPc = "idle"
    /\ nStreams = 0
    /\ chState = [s \in Streams |-> "none"]
    /\ chBehaviour = [s \in Streams |-> "exits"]
    /\ chWritten = [s \in Streams |-> 0]
    /\ termSent = [s \in Streams |-> FALSE]
    /\ killTried = [s \in Streams |-> FALSE]
    /\ stopped = [s \in Streams |-> FALSE]
    /\ pump = [s \in Streams |-> "none"]
    /\ pumpEnd = [s \in Streams |-> "none"]
    /\ invoked = [s \in Streams |-> <<>>]
    /\ bgTasks = {}
    /\ captures = 0
    /\ errorsLogged = 0
    /\ refusals = 0
    /\ appAlive = TRUE
    /\ shutdownDone = FALSE
    /\ afterShutdown = FALSE
    /\ actionsDone = 0
    /\ lastButton = "none"
    /\ savedTransport = "none"
    /\ clLine = <<>>
    /\ clLevel = "unset"
    /\ prYml = [d \in Levels |-> "none"]
    /\ prGit = {}
    /\ prRoot = NoRoot
    /\ tkKnown = {}
    /\ tkSamples = [o \in Operations |-> 0]
    /\ tkCtx = [i \in Contexts |-> [op |-> "none", st |-> "none"]]
    /\ tkCreated = 0
    /\ tkExited = [o \in Operations |-> 0]
    /\ stObj = DefaultState("None")
    /\ stFile = NoFile
    /\ stSaved = DefaultState("None")
    /\ stPc = "new"
    /\ stCycles = 0

SpecCapture == InitCapture /\ [][CaptureNext]_vars

\* NumCallers callers of _setup_runtime_dependencies on one target
\* directory, on any host environment, the marker present or absent
InitInstall ==
    /\ rcPc = "idle"
    /\ rcTimeout = "None"
    /\ proc = "none"
    /\ exitBy = "none"
    /\ killSent = FALSE
    /\ stdoutEof = FALSE
    /\ written = 0
    /\ output = Unbound
    /\ rc = "unset"
    /\ rcExc = "none"
    /\ timedOut = FALSE
    /\ seenAtTimeout = 0
    /\ osNt \in BOOLEAN
    /\ whichFinds \in SUBSET Tools
    /\ whereRun \in WhereOutcomes
    /\ pc = [c \in Callers |-> "idle"]
    /\ marker \in BOOLEAN
    /\ result = [c \in Callers |-> "none"]
    /\ err = [c \in Callers |-> "none"]
    /\ errPath = [c \in Callers |-> "none"]
    /\ installRuns = 0
    /\ installActive = 0
    /\ installsBy = [c \in Callers |-> 0]
    /\ markerInit = marker
    /\ markerStayed = [c \in Callers |-> FALSE]
    /\ markerAtFinal = [c \in Callers |-> FALSE]
    /\ removals = 0
    /\ concurrent = FALSE
    /\ sPhase = "new"
    /\ sIdx = 1
    /\ handlers = {}
    /\ sProc = "none"
    /\ sent = <<>>
    /\ wire = <<>>
    /\ initResp = "none"
    /\ serverReady = FALSE
    /\ readySets = 0
    /\ warned = FALSE
    /\ unhandled = {}
    /\ emitted = 0
    /\ startAttempts = 0
    /\ sErr = "none"
    /\ deadlineExpired = FALSE
    /\ pyDirHas = {}
    /\ feOut = "unset"
    /\ reqOut = [path |-> "unset", err |-> "unset", tried |-> {}]
    /\ feipOut = "unset"
    /\ mcpProc = 0
    /\ hPc = "idle"
    /\ nStreams = 0
    /\ chState = [s \in Streams |-> "none"]
    /\ chBehaviour = [s \in Streams |-> "exits"]
    /\ chWritten = [s \in Streams |-> 0]
    /\ termSent = [s \in Streams |-> FALSE]
    /\ killTried = [s \in Streams |-> FALSE]
    /\ stopped = [s \in Streams |-> FALSE]
    /\ pump = [s \in Streams |-> "none"]
    /\ pumpEnd = [s \in Streams |-> "none"]
    /\ invoked = [s \in Streams |-> <<>>]
    /\ bgTasks = {}
    /\ captures = 0
    /\ errorsLogged = 0
    /\ refusals = 0
    /\ appAlive = TRUE
    /\ shutdownDone = FALSE
    /\ afterShutdown = FALSE
    /\ actionsDone = 0
    /\ lastButton = "none"
    /\ savedTransport = "none"
    /\ clLine = <<>>
    /\ clLevel = "unset"
    /\ prYml = [d \in Levels |-> "none"]
    /\ prGit = {}
    /\ prRoot = NoRoot
    /\ tkKnown = {}
    /\ tkSamples = [o \in Operations |-> 0]
    /\ tkCtx = [i \in Contexts |-> [op |-> "none", st |-> "none"]]
    /\ tkCreated = 0
    /\ tkExited = [o \in Operations |-> 0]
    /\ stObj = DefaultState("None")
    /\ stFile = NoFile
    /\ stSaved = DefaultState("None")
    /\ stPc = "new"
    /\ stCycles = 0

SpecInstall == InitInstall /\ [][InstallNext]_vars

\* one YamlLanguageServer: construction, start, handshake, shutdown
InitSession ==
    /\ rcPc = "idle"
    /\ rcTimeout = "None"
    /\ proc = "none"
    /\ exitBy = "none"
    /\ killSent = FALSE
    /\ stdoutEof = FALSE
    /\ written = 0
    /\ output = Unbound
    /\ rc = "unset"
    /\ rcExc = "none"
    /\ timedOut = FALSE
    /\ seenAtTimeout = 0
    /\ osNt \in BOOLEAN
    /\ whichFinds \in SUBSET Tools
    /\ whereRun \in WhereOutcomes
    /\ pc = [c \in Callers |-> "idle"]
    /\ marker \in BOOLEAN
    /\ result = [c \in Callers |-> "none"]
    /\ err = [c \in Callers |-> "none"]
    /\ errPath = [c \in Callers |-> "none"]
    /\ installRuns = 0
    /\ installActive = 0
    /\ installsBy = [c \in Callers |-> 0]
    /\ markerInit = marker
    /\ markerStayed = [c \in Callers |-> FALSE]
    /\ markerAtFinal = [c \in Callers |-> FALSE]
    /\ removals = 0
    /\ concurrent = FALSE
    /\ sPhase = "new"
    /\ sIdx = 1
    /\ handlers = {}
    /\ sProc = "none"
    /\ sent = <<>>
    /\ wire = <<>>
    /\ initResp = "none"
    /\ serverReady = FALSE
    /\ readySets = 0
    /\ warned = FALSE
    /\ unhandled = {}
    /\ emitted = 0
    /\ startAttempts = 0
    /\ sErr = "none"
    /\ deadlineExpired = FALSE
    /\ pyDirHas = {}
    /\ feOut = "unset"
    /\ reqOut = [path |-> "unset", err |-> "unset", tried |-> {}]
    /\ feipOut = "unset"
    /\ mcpProc = 0
    /\ hPc = "idle"
    /\ nStreams = 0
    /\ chState = [s \in Streams |-> "none"]
    /\ chBehaviour = [s \in Streams |-> "exits"]
    /\ chWritten = [s \in Streams |-> 0]
    /\ termSent = [s \in Streams |-> FALSE]
    /\ killTried = [s \in Streams |-> FALSE]
    /\ stopped = [s \in Streams |-> FALSE]
    /\ pump = [s \in Streams |-> "none"]
    /\ pumpEnd = [s \in Streams |-> "none"]
    /\ invoked = [s \in Streams |-> <<>>]
    /\ bgTasks = {}
    /\ captures = 0
    /\ errorsLogged = 0
    /\ refusals = 0
    /\ appAlive = TRUE
    /\ shutdownDone = FALSE
    /\ afterShutdown = FALSE
    /\ actionsDone = 0
    /\ lastButton = "none"
    /\ savedTransport = "none"
    /\ clLine = <<>>
    /\ clLevel = "unset"
    /\ prYml = [d \in Levels |-> "none"]
    /\ prGit = {}
    /\ prRoot = NoRoot
    /\ tkKnown = {}
    /\ tkSamples = [o \in Operations |-> 0]
    /\ tkCtx = [i \in Contexts |-> [op |-> "none", st |-> "none"]]
    /\ tkCreated = 0
    /\ tkExited = [o \in Operations |-> 0]
    /\ stObj = DefaultState("None")
    /\ stFile = NoFile
    /\ stSaved = DefaultState("None")
    /\ stPc = "new"
    /\ stCycles = 0

SpecSession == InitSession /\ [][SessionNext]_vars

\* find_executable, require_executable and find_executable_in_path applied
\* to one name on any host environment
InitResolve ==
    /\ rcPc = "idle"
    /\ rcTimeout = "None"
    /\ proc = "none"
    /\ exitBy = "none"
    /\ killSent = FALSE
    /\ stdoutEof = FALSE
    /\ written = 0
    /\ output = Unbound
    /\ rc = "unset"
    /\ rcExc = "none"
    /\ timedOut = FALSE
    /\ seenAtTimeout = 0
    /\ osNt \in BOOLEAN
    /\ whichFinds \in SUBSET BaseNames
    /\ whereRun \in WhereOutcomes
    /\ pc = [c \in Callers |-> "idle"]
    /\ marker = FALSE
    /\ result = [c \in Callers |-> "none"]
    /\ err = [c \in Callers |-> "none"]
    /\ errPath = [c \in Callers |-> "none"]
    /\ installRuns = 0
    /\ installActive = 0
    /\ installsBy = [c \in Callers |-> 0]
    /\ markerInit = marker
    /\ markerStayed = [c \in Callers |-> FALSE]
    /\ markerAtFinal = [c \in Callers |-> FALSE]
    /\ removals = 0
    /\ concurrent = FALSE
    /\ sPhase = "new"
    /\ sIdx = 1
    /\ handlers = {}
    /\ sProc = "none"
    /\ sent = <<>>
    /\ wire = <<>>
    /\ initResp = "none"
    /\ serverReady = FALSE
    /\ readySets = 0
    /\ warned = FALSE
    /\ unhandled = {}
    /\ emitted = 0
    /\ startAttempts = 0
    /\ sErr = "none"
    /\ deadlineExpired = FALSE
    /\ pyDirHas \in SUBSET BaseNames
    /\ feOut = "unset"
    /\ reqOut = [path |-> "unset", err |-> "unset", tried |-> {}]
    /\ feipOut = "unset"
    /\ mcpProc = 0
    /\ hPc = "idle"
    /\ nStreams = 0
    /\ chState = [s \in Streams |-> "none"]
    /\ chBehaviour = [s \in Streams |-> "exits"]
    /\ chWritten = [s \in Streams |-> 0]
    /\ termSent = [s \in Streams |-> FALSE]
    /\ killTried = [s \in Streams |-> FALSE]
    /\ stopped = [s \in Streams |-> FALSE]
    /\ pump = [s \in Streams |-> "none"]
    /\ pumpEnd = [s \in Streams |-> "none"]
    /\ invoked = [s \in Streams |-> <<>>]
    /\ bgTasks = {}
    /\ captures = 0
    /\ errorsLogged = 0
    /\ refusals = 0
    /\ appAlive = TRUE
    /\ shutdownDone = FALSE
    /\ afterShutdown = FALSE
    /\ actionsDone = 0
    /\ lastButton = "none"
    /\ savedTransport = "none"
    /\ clLine = <<>>
    /\ clLevel = "unset"
    /\ prYml = [d \in Levels |-> "none"]
    /\ prGit = {}
    /\ prRoot = NoRoot
    /\ tkKnown = {}
    /\ tkSamples = [o \in Operations |-> 0]
    /\ tkCtx = [i \in Contexts |-> [op |-> "none", st |-> "none"]]
    /\ tkCreated = 0
    /\ tkExited = [o \in Operations |-> 0]
    /\ stObj = DefaultState("None")
    /\ stFile = NoFile
    /\ stSaved = DefaultState("None")
    /\ stPc = "new"
    /\ stCycles = 0

SpecResolve == InitResolve /\ [][ResolveNext]_vars

\* one SerenaTuiApp, the children it streams and their pump tasks, on a
\* host where each of the two executables is or is not on the PATH
InitTui ==
    /\ rcPc = "idle"
    /\ rcTimeout = "None"
    /\ proc = "none"
    /\ exitBy = "none"
    /\ killSent = FALSE
    /\ stdoutEof = FALSE
    /\ written = 0
    /\ output = Unbound
    /\ rc = "unset"
    /\ rcExc = "none"
    /\ timedOut = FALSE
    /\ seenAtTimeout = 0
    /\ osNt = FALSE
    /\ whichFinds \in SUBSET {SerenaExe, McpExe}
    /\ whereRun = [rc |-> 1, out |-> <<>>]
    /\ pc = [c \in Callers |-> "idle"]
    /\ marker = FALSE
    /\ result = [c \in Callers |-> "none"]
    /\ err = [c \in Callers |-> "none"]
    /\ errPath = [c \in Callers |-> "none"]
    /\ installRuns = 0
    /\ installActive = 0
    /\ installsBy = [c \in Callers |-> 0]
    /\ markerInit = marker
    /\ markerStayed = [c \in Callers |-> FALSE]
    /\ markerAtFinal = [c \in Callers |-> FALSE]
    /\ removals = 0
    /\ concurrent = FALSE
    /\ sPhase = "new"
    /\ sIdx = 1
    /\ handlers = {}
    /\ sProc = "none"
    /\ sent = <<>>
    /\ wire = <<>>
    /\ initResp = "none"
    /\ serverReady = FALSE
    /\ readySets = 0
    /\ warned = FALSE
    /\ unhandled = {}
    /\ emitted = 0
    /\ startAttempts = 0
    /\ sErr = "none"
    /\ deadlineExpired = FALSE
    /\ pyDirHas = {}
    /\ feOut = "unset"
    /\ reqOut = [path |-> "unset", err |-> "unset", tried |-> {}]
    /\ feipOut = "unset"
    /\ mcpProc = 0
    /\ hPc = "idle"
    /\ nStreams = 0
    /\ chState = [s \in Streams |-> "none"]
    /\ chBehaviour = [s \in Streams |-> "exits"]
    /\ chWritten = [s \in Streams |-> 0]
    /\ termSent = [s \in Streams |-> FALSE]
    /\ killTried = [s \in Streams |-> FALSE]
    /\ stopped = [s \in Streams |-> FALSE]
    /\ pump = [s \in Streams |-> "none"]
    /\ pumpEnd = [s \in Streams |-> "none"]
    /\ invoked = [s \in Streams |-> <<>>]
    /\ bgTasks = {}
    /\ captures = 0
    /\ errorsLogged = 0
    /\ refusals = 0
    /\ appAlive = TRUE
    /\ shutdownDone = FALSE
    /\ afterShutdown = FALSE
    /\ actionsDone = 0
    /\ lastButton = "none"
    /\ savedTransport = "none"
    /\ clLine = <<>>
    /\ clLevel = "unset"
    /\ prYml = [d \in Levels |-> "none"]
    /\ prGit = {}
    /\ prRoot = NoRoot
    /\ tkKnown = {}
    /\ tkSamples = [o \in Operations |-> 0]
    /\ tkCtx = [i \in Contexts |-> [op |-> "none", st |-> "none"]]
    /\ tkCreated = 0
    /\ tkExited = [o \in Operations |-> 0]
    /\ stObj = DefaultState("None")
    /\ stFile = NoFile
    /\ stSaved = DefaultState("None")
    /\ stPc = "new"
    /\ stCycles = 0

SpecTui == InitTui /\ [][TuiNext]_vars

\* _determine_log_level applied to every line of at most MaxWords words
InitClassify ==
    /\ rcPc = "idle"
    /\ rcTimeout = "None"
    /\ proc = "none"
    /\ exitBy = "none"
    /\ killSent = FALSE
    /\ stdoutEof = FALSE
    /\ written = 0
    /\ output = Unbound
    /\ rc = "unset"
    /\ rcExc = "none"
    /\ timedOut = FALSE
    /\ seenAtTimeout = 0
    /\ osNt = FALSE
    /\ whichFinds = {}
    /\ whereRun = [rc |-> 1, out |-> <<>>]
    /\ pc = [c \in Callers |-> "idle"]
    /\ marker = FALSE
    /\ result = [c \in Callers |-> "none"]
    /\ err = [c \in Callers |-> "none"]
    /\ errPath = [c \in Callers |-> "none"]
    /\ installRuns = 0
    /\ installActive = 0
    /\ installsBy = [c \in Callers |-> 0]
    /\ markerInit = marker
    /\ markerStayed = [c \in Callers |-> FALSE]
    /\ markerAtFinal = [c \in Callers |-> FALSE]
    /\ removals = 0
    /\ concurrent = FALSE
    /\ sPhase = "new"
    /\ sIdx = 1
    /\ handlers = {}
    /\ sProc = "none"
    /\ sent = <<>>
    /\ wire = <<>>
    /\ initResp = "none"
    /\ serverReady = FALSE
    /\ readySets = 0
    /\ warned = FALSE
    /\ unhandled = {}
    /\ emitted = 0
    /\ startAttempts = 0
    /\ sErr = "none"
    /\ deadlineExpired = FALSE
    /\ pyDirHas = {}
    /\ feOut = "unset"
    /\ reqOut = [path |-> "unset", err |-> "unset", tried |-> {}]
    /\ feipOut = "unset"
    /\ mcpProc = 0
    /\ hPc = "idle"
    /\ nStreams = 0
    /\ chState = [s \in Streams |-> "none"]
    /\ chBehaviour = [s \in Streams |-> "exits"]
    /\ chWritten = [s \in Streams |-> 0]
    /\ termSent = [s \in Streams |-> FALSE]
    /\ killTried = [s \in Streams |-> FALSE]
    /\ stopped = [s \in Streams |-> FALSE]
    /\ pump = [s \in Streams |-> "none"]
    /\ pumpEnd = [s \in Streams |-> "none"]
    /\ invoked = [s \in Streams |-> <<>>]
    /\ bgTasks = {}
    /\ captures = 0
    /\ errorsLogged = 0
    /\ refusals = 0
    /\ appAlive = TRUE
    /\ shutdownDone = FALSE
    /\ afterShutdown = FALSE
    /\ actionsDone = 0
    /\ lastButton = "none"
    /\ savedTransport = "none"
    /\ clLine \in UNION {[1..n -> Words] : n \in 0..MaxWords}
    /\ clLevel = "unset"
    /\ prYml = [d \in Levels |-> "none"]
    /\ prGit = {}
    /\ prRoot = NoRoot
    /\ tkKnown = {}
    /\ tkSamples = [o \in Operations |-> 0]
    /\ tkCtx = [i \in Contexts |-> [op |-> "none", st |-> "none"]]
    /\ tkCreated = 0
    /\ tkExited = [o \in Operations |-> 0]
    /\ stObj = DefaultState("None")
    /\ stFile = NoFile
    /\ stSaved = DefaultState("None")
    /\ stPc = "new"
    /\ stCycles = 0

SpecClassify == InitClassify /\ [][ClassifyNext]_vars

\* find_project_root applied to every layout of the start directory and its
\* ancestors
InitProject ==
    /\ rcPc = "idle"
    /\ rcTimeout = "None"
    /\ proc = "none"
    /\ exitBy = "none"
    /\ killSent = FALSE
    /\ stdoutEof = FALSE
    /\ written = 0
    /\ output = Unbound
    /\ rc = "unset"
    /\ rcExc = "none"
    /\ timedOut = FALSE
    /\ seenAtTimeout = 0
    /\ osNt = FALSE
    /\ whichFinds = {}
    /\ whereRun = [rc |-> 1, out |-> <<>>]
    /\ pc = [c \in Callers |-> "idle"]
    /\ marker = FALSE
    /\ result = [c \in Callers |-> "none"]
    /\ err = [c \in Callers |-> "none"]
    /\ errPath = [c \in Callers |-> "none"]
    /\ installRuns = 0
    /\ installActive = 0
    /\ installsBy = [c \in Callers |-> 0]
    /\ markerInit = marker
    /\ markerStayed = [c \in Callers |-> FALSE]
    /\ markerAtFinal = [c \in Callers |-> FALSE]
    /\ removals = 0
    /\ concurrent = FALSE
    /\ sPhase = "new"
    /\ sIdx = 1
    /\ handlers = {}
    /\ sProc = "none"
    /\ sent = <<>>
    /\ wire = <<>>
    /\ initResp = "none"
    /\ serverReady = FALSE
    /\ readySets = 0
    /\ warned = FALSE
    /\ unhandled = {}
    /\ emitted = 0
    /\ startAttempts = 0
    /\ sErr = "none"
    /\ deadlineExpired = FALSE
    /\ pyDirHas = {}
    /\ feOut = "unset"
    /\ reqOut = [path |-> "unset", err |-> "unset", tried |-> {}]
    /\ feipOut = "unset"
    /\ mcpProc = 0
    /\ hPc = "idle"
    /\ nStreams = 0
    /\ chState = [s \in Streams |-> "none"]
    /\ chBehaviour = [s \in Streams |-> "exits"]
    /\ chWritten = [s \in Streams |-> 0]
    /\ termSent = [s \in Streams |-> FALSE]
    /\ killTried = [s \in Streams |-> FALSE]
    /\ stopped = [s \in Streams |-> FALSE]
    /\ pump = [s \in Streams |-> "none"]
    /\ pumpEnd = [s \in Streams |-> "none"]
    /\ invoked = [s \in Streams |-> <<>>]
    /\ bgTasks = {}
    /\ captures = 0
    /\ errorsLogged = 0
    /\ refusals = 0
    /\ appAlive = TRUE
    /\ shutdownDone = FALSE
    /\ afterShutdown = FALSE
    /\ actionsDone = 0
    /\ lastButton = "none"
    /\ savedTransport = "none"
    /\ clLine = <<>>
    /\ clLevel = "unset"
    /\ prYml \in [Levels -> {"none", "file", "dir"}]
    /\ prGit \in SUBSET Levels
    /\ prRoot = NoRoot
    /\ tkKnown = {}
    /\ tkSamples = [o \in Operations |-> 0]
    /\ tkCtx = [i \in Contexts |-> [op |-> "none", st |-> "none"]]
    /\ tkCreated = 0
    /\ tkExited = [o \in Operations |-> 0]
    /\ stObj = DefaultState("None")
    /\ stFile = NoFile
    /\ stSaved = DefaultState("None")
    /\ stPc = "new"
    /\ stCycles = 0

SpecProject == InitProject /\ [][ProjectNext]_vars

\* one PerformanceTracker and up to MaxContexts contexts of two operation
\* names, entered and exited in any interleaving
InitTracker ==
    /\ rcPc = "idle"
    /\ rcTimeout = "None"
    /\ proc = "none"
    /\ exitBy = "none"
    /\ killSent = FALSE
    /\ stdoutEof = FALSE
    /\ written = 0
    /\ output = Unbound
    /\ rc = "unset"
    /\ rcExc = "none"
    /\ timedOut = FALSE
    /\ seenAtTimeout = 0
    /\ osNt = FALSE
    /\ whichFinds = {}
    /\ whereRun = [rc |-> 1, out |-> <<>>]
    /\ pc = [c \in Callers |-> "idle"]
    /\ marker = FALSE
    /\ result = [c \in Callers |-> "none"]
    /\ err = [c \in Callers |-> "none"]
    /\ errPath = [c \in Callers |-> "none"]
    /\ installRuns = 0
    /\ installActive = 0
    /\ installsBy = [c \in Callers |-> 0]
    /\ markerInit = marker
    /\ markerStayed = [c \in Callers |-> FALSE]
    /\ markerAtFinal = [c \in Callers |-> FALSE]
    /\ removals = 0
    /\ concurrent = FALSE
    /\ sPhase = "new"
    /\ sIdx = 1
    /\ handlers = {}
    /\ sProc = "none"
    /\ sent = <<>>
    /\ wire = <<>>
    /\ initResp = "none"
    /\ serverReady = FALSE
    /\ readySets = 0
    /\ warned = FALSE
    /\ unhandled = {}
    /\ emitted = 0
    /\ startAttempts = 0
    /\ sErr = "none"
    /\ deadlineExpired = FALSE
    /\ pyDirHas = {}
    /\ feOut = "unset"
    /\ reqOut = [path |-> "unset", err |-> "unset", tried |-> {}]
    /\ feipOut = "unset"
    /\ mcpProc = 0
    /\ hPc = "idle"
    /\ nStreams = 0
    /\ chState = [s \in Streams |-> "none"]
    /\ chBehaviour = [s \in Streams |-> "exits"]
    /\ chWritten = [s \in Streams |-> 0]
    /\ termSent = [s \in Streams |-> FALSE]
    /\ killTried = [s \in Streams |-> FALSE]
    /\ stopped = [s \in Streams |-> FALSE]
    /\ pump = [s \in Streams |-> "none"]
    /\ pumpEnd = [s \in Streams |-> "none"]
    /\ invoked = [s \in Streams |-> <<>>]
    /\ bgTasks = {}
    /\ captures = 0
    /\ errorsLogged = 0
    /\ refusals = 0
    /\ appAlive = TRUE
    /\ shutdownDone = FALSE
    /\ afterShutdown = FALSE
    /\ actionsDone = 0
    /\ lastButton = "none"
    /\ savedTransport = "none"
    /\ clLine = <<>>
    /\ clLevel = "unset"
    /\ prYml = [d \in Levels |-> "none"]
    /\ prGit = {}
    /\ prRoot = NoRoot
    /\ tkKnown = {}
    /\ tkSamples = [o \in Operations |-> 0]
    /\ tkCtx = [i \in Contexts |-> [op |-> "none", st |-> "none"]]
    /\ tkCreated = 0
    /\ tkExited = [o \in Operations |-> 0]
    /\ stObj = DefaultState("None")
    /\ stFile = NoFile
    /\ stSaved = DefaultState("None")
    /\ stPc = "new"
    /\ stCycles = 0

SpecTracker == InitTracker /\ [][TrackerNext]_vars

\* one SerenaTuiState object with its fields drawn from small sets, and the
\* state file of one project root: absent, unreadable or left by an older
\* version; save and load are called in any order
InitState ==
    /\ rcPc = "idle"
    /\ rcTimeout = "None"
    /\ proc = "none"
    /\ exitBy = "none"
    /\ killSent = FALSE
    /\ stdoutEof = FALSE
    /\ written = 0
    /\ output = Unbound
    /\ rc = "unset"
    /\ rcExc = "none"
    /\ timedOut = FALSE
    /\ seenAtTimeout = 0
    /\ osNt = FALSE
    /\ whichFinds = {}
    /\ whereRun = [rc |-> 1, out |-> <<>>]
    /\ pc = [c \in Callers |-> "idle"]
    /\ marker = FALSE
    /\ result = [c \in Callers |-> "none"]
    /\ err = [c \in Callers |-> "none"]
    /\ errPath = [c \in Callers |-> "none"]
    /\ installRuns = 0
    /\ installActive = 0
    /\ installsBy = [c \in Callers |-> 0]
    /\ markerInit = marker
    /\ markerStayed = [c \in Callers |-> FALSE]
    /\ markerAtFinal = [c \in Callers |-> FALSE]
    /\ removals = 0
    /\ concurrent = FALSE
    /\ sPhase = "new"
    /\ sIdx = 1
    /\ handlers = {}
    /\ sProc = "none"
    /\ sent = <<>>
    /\ wire = <<>>
    /\ initResp = "none"
    /\ serverReady = FALSE
    /\ readySets = 0
    /\ warned = FALSE
    /\ unhandled = {}
    /\ emitted = 0
    /\ startAttempts = 0
    /\ sErr = "none"
    /\ deadlineExpired = FALSE
    /\ pyDirHas = {}
    /\ feOut = "unset"
    /\ reqOut = [path |-> "unset", err |-> "unset", tried |-> {}]
    /\ feipOut = "unset"
    /\ mcpProc = 0
    /\ hPc = "idle"
    /\ nStreams = 0
    /\ chState = [s \in Streams |-> "none"]
    /\ chBehaviour = [s \in Streams |-> "exits"]
    /\ chWritten = [s \in Streams |-> 0]
    /\ termSent = [s \in Streams |-> FALSE]
    /\ killTried = [s \in Streams |-> FALSE]
    /\ stopped = [s \in Streams |-> FALSE]
    /\ pump = [s \in Streams |-> "none"]
    /\ pumpEnd = [s \in Streams |-> "none"]
    /\ invoked = [s \in Streams |-> <<>>]
    /\ bgTasks = {}
    /\ captures = 0
    /\ errorsLogged = 0
    /\ refusals = 0
    /\ appAlive = TRUE
    /\ shutdownDone = FALSE
    /\ afterShutdown = FALSE
    /\ actionsDone = 0
    /\ lastButton = "none"
    /\ savedTransport = "none"
    /\ clLine = <<>>
    /\ clLevel = "unset"
    /\ prYml = [d \in Levels |-> "none"]
    /\ prGit = {}
    /\ prRoot = NoRoot
    /\ tkKnown = {}
    /\ tkSamples = [o \in Operations |-> 0]
    /\ tkCtx = [i \in Contexts |-> [op |-> "none", st |-> "none"]]
    /\ tkCreated = 0
    /\ tkExited = [o \in Operations |-> 0]
    /\ \E version \in {1, STATE_VERSION}, last \in {"None", "/old/proj"},
          context \in FieldTexts, modes \in ModeLists(MaxModes),
          transport \in {"", "sse"}, host \in {"", "localhost"},
          port \in {0, DefaultPort}, dashboard \in BOOLEAN, logWindow \in BOOLEAN :
            stObj = [version |-> version,
                     lastProjectRoot |-> last,
                     context |-> context,
                     modes |-> modes,
                     transport |-> transport,
                     host |-> host,
                     port |-> port,
                     disableDashboard |-> dashboard,
                     disableGuiLogWindow |-> logWindow]
    /\ \E kind \in {"absent", "garbage", "legacy"} :
            stFile = (CASE kind = "absent" -> NoFile
                        [] kind = "garbage" -> GarbageFile
                        [] kind = "legacy" -> LegacyFile)
    /\ stSaved = DefaultState("None")
    /\ stPc = "new"
    /\ stCycles = 0

SpecState == InitState /\ [][StateNext]_vars

\* ========================================================================
\* Properties
\* ========================================================================
Finished(c) == pc[c] \in {"returned", "failed"}

\* C1: whenever run_capture has returned or raised after spawning a child,
\* on the end-of-file, timeout and read-error paths, the child has ended and
\* its exit status has been collected; the wait after an expired grace wait
\* only happens once the child has been sent the kill.
C1_ChildReapedOnExit ==
    /\ (rcPc \in {"returned", "raised"} /\ proc # "none"
            /\ rcExc \in {"none", "Timeout", "ReadError"})
          => (proc = "reaped" /\ rc # "unset")
    /\ rcPc = "killWait" => killSent

\* the timeout path on which the child had to be killed
C1_Witness ==
    /\ rcPc = "raised" /\ rcExc = "Timeout"
    /\ killSent /\ proc = "reaped" /\ rc = "kill"

\* C2: when the read timed out, run_capture ends by returning a pair whose
\* output is what had been captured at the timeout, not by raising.
C2_TimeoutReturnsCaptured ==
    (timedOut /\ rcPc \in {"returned", "raised"} /\ rcExc # "Cancelled")
        => (rcPc = "returned" /\ output = seenAtTimeout)

\* C3: when the callers' calls overlap and the marker is absent at first
\* (and never deleted), the install command never runs twice, never runs in two callers at once, and has run
\* exactly once when every caller has finished.
C3_SingleFlight ==
    (concurrent /\ ~markerInit /\ removals = 0) =>
        /\ installActive <= 1
        /\ installRuns <= 1
        /\ ((\A c \in Callers : Finished(c)) /\ ToolsAsserted) => installRuns = 1

\* C4: a call that was made with the marker present, and during which the
\* marker stayed present, has executed the install command zero times.
C4_NoInstallWhenMarkerPresent ==
    \A c \in Callers : markerStayed[c] => installsBy[c] = 0

\* a later call returning after an earlier call installed the marker
C4_Witness ==
    \E c \in Callers :
        /\ pc[c] = "returned" /\ markerStayed[c] /\ installsBy[c] = 0
        /\ ~markerInit /\ installRuns = 1

\* C5: a call that returned saw the marker at its final check and returns
\* the marker path; a call whose install command completed and whose final
\* check found the marker absent failed with an error naming exactly the
\* expected marker path.
C5_NoSuccessWithoutMarker ==
    \A c \in Callers :
        /\ pc[c] = "returned" =>
              (markerAtFinal[c] /\ result[c] = YamlExecutablePath \o " --stdio")
        /\ (Finished(c) /\ err[c] \notin {"AssertionError", "InstallationError"}
                /\ ~markerAtFinal[c])
              => (pc[c] = "failed" /\ err[c] = "FileNotFoundError"
                    /\ errPath[c] = YamlExecutablePath /\ result[c] = "none")

\* the install command exited 0 without producing the marker
C5_Witness ==
    \E c \in Callers :
        /\ pc[c] = "failed" /\ err[c] = "FileNotFoundError"
        /\ installsBy[c] = 1 /\ ~markerAtFinal[c]
        /\ errPath[c] = YamlExecutablePath

IsPrefix(a, b) == Len(a) <= Len(b) /\ \A i \in 1..Len(a) : a[i] = b[i]

Handshake == <<"initialize", "initialized">>

\* C6: once the backend process has been started or any message has been
\* sent, every handler _start_server registers is registered, and no
\* message of such a method was ever dispatched without its handler.
C6_HandlersBeforeStart ==
    /\ (sProc # "none" \/ sent # <<>>) => RegisteredMethods \subseteq handlers
    /\ unhandled \cap RegisteredMethods = {}

\* the backend spoke right after the spawn, before the initialize request,
\* and its messages were dispatched
C6_Witness ==
    /\ sProc = "running" /\ sent = <<>>
    /\ emitted = MaxBackendMsgs /\ wire = <<>>

\* C7: the messages sent are always a prefix of initialize, initialized; the
\* initialized notification is only sent with the initialize response
\* received; the session is ready only after both were sent.
C7_HandshakeOrder ==
    /\ IsPrefix(sent, Handshake)
    /\ Len(sent) = 2 => initResp # "none"
    /\ serverReady => sent = Handshake

\* the notification has gone out after the response, readiness not yet set
C7_Witness ==
    /\ sent = Handshake /\ initResp # "none" /\ ~serverReady

Rank(st) ==
    CASE st = "NotStarted" -> 0
      [] st = "Installing" -> 1
      [] st = "Launching" -> 2
      [] st = "Handshaking" -> 3
      [] st = "Ready" -> 4
      [] st = "Terminated" -> 5
      [] OTHER -> 100

LifecycleMove ==
    \/ LifecycleState' = LifecycleState
    \/ LifecycleState' = "Failed"
    \/ Rank(LifecycleState') = Rank(LifecycleState) + 1

\* C9: the lifecycle state starts at NotStarted and every change of it is
\* a move to the next state of NotStarted, Installing, Launching,
\* Handshaking, Ready, Terminated, or a move to Failed.
C9_LifecycleOrder ==
    LifecycleState = "NotStarted" /\ [][LifecycleMove]_vars

\* a session that installed, launched, shook hands and was shut down
C9_Witness ==
    /\ LifecycleState = "Terminated" /\ installsBy[Self] = 1
    /\ sent = Handshake

C18_ThreeStepOrder ==
    LET first(present) ==
            IF osNt /\ (Base \o ".exe") \in present THEN Base \o ".exe"
            ELSE IF Base \in present THEN Base
            ELSE "None"
        byWhere ==
            IF osNt /\ whereRun.rc = 0 /\ whereRun.out # <<>> THEN whereRun.out[1]
            ELSE "None"
        claimed ==
            IF first(whichFinds) # "None" THEN WhichPath(first(whichFinds))
            ELSE IF first(pyDirHas) # "None" THEN PyDir \o "/" \o first(pyDirHas)
            ELSE byWhere
    IN  /\ (feOut # "unset" => feOut = claimed)
        /\ (feipOut # "unset" => feipOut = claimed)

\* C18 (amended): find_executable returns the first match on the PATH, on
\* Windows trying the name with .exe before the bare name; else the first
\* match, in the same order of names, in the directory of the running
\* Python; else None, whatever `where` would print. find_executable_in_path
\* returns the PATH match of the bare name; else, on Windows, when `where`
\* exits 0, the first line of its stripped output; else None, whatever the
\* directory of the running Python holds.
C18_ResolveOrder ==
    LET exe == Base \o ".exe"
    IN  /\ (feOut # "unset" =>
              feOut = (IF osNt /\ exe \in whichFinds THEN WhichPath(exe)
                       ELSE IF Base \in whichFinds THEN WhichPath(Base)
                       ELSE IF osNt /\ exe \in pyDirHas THEN PyDir \o "/" \o exe
                       ELSE IF Base \in pyDirHas THEN PyDir \o "/" \o Base
                       ELSE "None"))
        /\ (feipOut # "unset" =>
              feipOut = (IF Base \in whichFinds THEN WhichPath(Base)
                         ELSE IF osNt /\ whereRun.rc = 0
                              THEN (IF whereRun.out = <<>> THEN "" ELSE whereRun.out[1])
                              ELSE "None"))

\* on Windows, nothing on the PATH, both names next to the Python and a
\* `where` that prints a path: find_executable took the .exe next to the
\* Python, find_executable_in_path took the first line of `where`
C18_Witness ==
    /\ osNt /\ whichFinds = {} /\ pyDirHas = BaseNames
    /\ whereRun.rc = 0 /\ whereRun.out # <<>>
    /\ feOut = PyDir \o "/" \o Base \o ".exe"
    /\ feipOut = whereRun.out[1]

\* C19: require_executable returns exactly the path find_executable returns
\* whenever a candidate exists on the PATH or next to the Python, and
\* raises the not-found error, naming the places that were searched,
\* exactly when there is no candidate.
C19_RequireMatchesResolve ==
    LET names == IF osNt THEN BaseNames ELSE {Base}
        candidateExists == names \cap (whichFinds \cup pyDirHas) # {}
    IN  reqOut.err # "unset" =>
            /\ (candidateExists =>
                    /\ reqOut.err = "none"
                    /\ reqOut.path \notin {"None", "unset"}
                    /\ (feOut # "unset" => reqOut.path = feOut))
            /\ (~candidateExists =>
                    /\ reqOut.err = "FileNotFoundError"
                    /\ reqOut.tried = {"PATH", "PyDir"}
                    /\ (feOut # "unset" => feOut = "None"))

\* no candidate anywhere: find_executable returned None and
\* require_executable raised
C19_Witness ==
    /\ whichFinds = {} /\ pyDirHas = {}
    /\ feOut = "None" /\ reqOut.err = "FileNotFoundError"

\* the lines 1..n, in the order the child wrote them
LinesUpTo(n) == [i \in 1..n |-> i]

\* C13: the pump calls on_line exactly once for each line the child
\* writes, in the order written, none skipped and none twice, until the
\* output reaches end-of-file: what has been delivered is always the first
\* lines written, and a pump that has ended without being cancelled has met
\* end-of-file with every written line delivered.
C13_EveryLineDeliveredInOrder ==
    \A s \in Streams :
        /\ Len(invoked[s]) <= chWritten[s]
        /\ invoked[s] = LinesUpTo(Len(invoked[s]))
        /\ (pump[s] \in {"done", "removed"} /\ pumpEnd[s] # "cancelled") =>
                (chState[s] = "exited" /\ invoked[s] = LinesUpTo(chWritten[s]))

\* C14: once Stop has terminated the handle of a stream, on_line is not
\* called for that stream again, whatever the child had written before.
C14_NoCallbackAfterStop ==
    [][\A s \in Streams : stopped[s] => invoked'[s] = invoked[s]]_vars

\* C15: the background-task set holds every pump that has been started and
\* has not completed, and no pump whose done callback has run, however the
\* pump ended; a completed pump whose done callback is still queued on the
\* loop is the only one that may be in the set without running.
C15_BackgroundSetTracksPumps ==
    \A s \in Streams :
        /\ (pump[s] = "running" => s \in bgTasks)
        /\ (pump[s] \in {"none", "removed"} => s \notin bgTasks)
        /\ (s \in bgTasks => s <= nStreams)

\* two pumps were started: the first ended on an error of on_line and was
\* removed, the second is running and is the only member of the set
C15_Witness ==
    /\ nStreams = 2
    /\ pump[1] = "removed" /\ pumpEnd[1] = "error"
    /\ pump[2] = "running"
    /\ bgTasks = {2}

\* C16: when Stop is run on a child that graceful termination does not make
\* exit, the stop goes on to kill(): no stopped child is still running on
\* an ignored SIGTERM with no kill() issued.
C16_StopEscalatesToKill ==
    \A s \in Streams :
        (stopped[s] /\ chState[s] = "running" /\ chBehaviour[s] = "ignoresTerm")
            => killTried[s]

\* C17: once on_shutdown has run, every pump has been cancelled and
\* awaited: the background-task set is empty, no pump is running and
\* on_line is not called any more.
C17_ShutdownDrainsPumps ==
    /\ shutdownDone => (bgTasks = {} /\ \A s \in Streams : pump[s] # "running")
    /\ ~afterShutdown

\* a Start or a command button handled in this step whose executable
\* find_executable does not find
UnresolvedStep ==
    /\ actionsDone' = actionsDone + 1
    /\ \/ lastButton' = "run" /\ FindExecutable(SerenaExe) = "None"
       \/ /\ lastButton' = "start" /\ mcpProc = 0 /\ savedTransport' # "stdio"
          /\ FindExecutable(McpExe) = "None"

\* C20: an action whose executable cannot be resolved fails before
\* anything is spawned: the error is written to the log, no child and no
\* pump is created, the handle and the tracked children and tasks are as
\* before, and the app is alive with no handler in progress, ready for the
\* next action. No exception of an action ever takes the app down.
C20_UnresolvedFailsBeforeSpawn ==
    /\ [](appAlive)
    /\ [][UnresolvedStep =>
            /\ errorsLogged' = errorsLogged + 1
            /\ appAlive' /\ hPc' = "idle" /\ ~shutdownDone'
            /\ nStreams' = nStreams /\ captures' = captures
            /\ mcpProc' = mcpProc /\ chState' = chState
            /\ pump' = pump /\ bgTasks' = bgTasks]_vars

\* serena is not on the PATH, serena-mcp-server is: a command button failed
\* with the error logged, and the Start pressed next launched the server
C20_Witness ==
    /\ whichFinds = {McpExe}
    /\ actionsDone = 2 /\ errorsLogged = 1 /\ captures = 0
    /\ lastButton = "start" /\ nStreams = 1 /\ mcpProc = 1
    /\ appAlive

\* the unsolicited methods the claim names
NoOpMethods == {"client/registerCapability", "$/progress", "textDocument/publishDiagnostics"}

\* C21: a dynamic-registration request, a progress notification or a
\* diagnostics push, received in any number and order at any point after the
\* process was spawned, raises no protocol error (it always finds its
\* handler) and its dispatch leaves the lifecycle state, the readiness
\* signal and the error of the session as they were.
C21_UnsolicitedAreNoOps ==
    /\ [](unhandled \cap NoOpMethods = {})
    /\ [][(wire # <<>> /\ wire' = Tail(wire) /\ Head(wire) \in NoOpMethods) =>
            /\ LifecycleState' = LifecycleState
            /\ serverReady' = serverReady
            /\ sErr' = sErr /\ sPhase' = sPhase /\ sProc' = sProc]_vars

\* two unsolicited messages arrived and were dispatched while the
\* initialize request was still unanswered
C21_Witness ==
    /\ sPhase = "awaiting" /\ initResp = "none"
    /\ emitted >= 2 /\ wire = <<>>
    /\ unhandled = {}

\* C22: the classifier returns the debug severity when the line, compared
\* without regard to case, contains 'cannot find module' together with
\* 'package.json', or contains 'no parser'; for every other line it returns
\* exactly what the default classifier returns for that line.
C22_BenignLinesAreDebug ==
    LET has(spellings) == \E i \in 1..Len(clLine) : clLine[i] \in spellings
        benign ==
            \/ /\ has({"cannot find module", "Cannot Find Module"})
               /\ has({"package.json", "PACKAGE.JSON"})
            \/ has({"no parser", "No Parser"})
    IN  clLevel # "unset" =>
            clLevel = (IF benign THEN "DEBUG" ELSE SolidDetermineLogLevel(clLine))

\* a line the default classifier calls an error, with the benign phrase in
\* capitals, came out as debug
C22_Witness ==
    /\ clLine = <<"error", "No Parser">>
    /\ SolidDetermineLogLevel(clLine) = "ERROR"
    /\ clLevel = "DEBUG"

\* C23: when the marker executable is present under the target directory
\* for the whole call, the call returns the command of that path: the
\* marker is the only condition consulted, so no tool lookup or other
\* precondition makes the call fail.
C23_MarkerAloneDecides ==
    \A c \in Callers :
        (markerStayed[c] /\ pc[c] \in {"returned", "failed"}) =>
            /\ pc[c] = "returned"
            /\ err[c] = "none"
            /\ result[c] = YamlExecutablePath \o " --stdio"

\* C24: a failed install command makes the call fail with the installation
\* error after exactly one execution of the command: no caller ever runs the
\* command twice, and the session whose construction asked for the install
\* is never built, never started, and has no backend process.
C24_InstallFailureNoRetry ==
    /\ \A c \in Callers : installsBy[c] <= 1
    /\ err[Self] = "InstallationError" =>
            /\ pc[Self] = "failed" /\ result[Self] = "none"
            /\ installsBy[Self] = 1
            /\ sPhase = "new" /\ startAttempts = 0
            /\ sProc = "none" /\ sent = <<>>

\* the install command of the session failed; it ran once
C24_Witness ==
    /\ err[Self] = "InstallationError" /\ installsBy[Self] = 1
    /\ installRuns = 1 /\ ~marker
    /\ sPhase = "new" /\ sProc = "none"

\* C25: run_stream_lines returns the handle as soon as the child has been
\* spawned. Once the child exists the return can always happen, whatever
\* the child has or has not done (it waits for no exit and no output), and
\* at the return the handle is the new child's, its pump is tracked and
\* pending, and on_line has not been called for it.
C25_ReturnsRightAfterSpawn ==
    /\ [](hPc = "spawned" => ENABLED StartMcpReturned)
    /\ [][(hPc = "spawned" /\ hPc' = "idle") =>
            /\ mcpProc' = nStreams
            /\ pump'[nStreams] = "running" /\ nStreams \in bgTasks'
            /\ invoked'[nStreams] = <<>>
            /\ chState'[nStreams] = chState[nStreams]
            /\ chWritten'[nStreams] = chWritten[nStreams]]_vars

\* the handle was returned while the child was running and had written
\* nothing, and nothing has been delivered
C25_Witness ==
    /\ hPc = "idle" /\ mcpProc = 1
    /\ chState[1] = "running" /\ chWritten[1] = 0
    /\ pump[1] = "running" /\ invoked[1] = <<>>

\* C26: find_project_root returns the nearest directory among the start
\* and its ancestors that contains the file .serena/project.yml whenever
\* there is one, even when a nearer directory contains .git; otherwise the
\* nearest one that contains .git; otherwise the start directory.
C26_NearestSerenaThenGit ==
    LET withYml == {d \in Levels : prYml[d] = "file"}
        nearest(ds) == \A e \in ds : prRoot <= e
    IN  prRoot # NoRoot =>
            /\ withYml # {} => (prRoot \in withYml /\ nearest(withYml))
            /\ (withYml = {} /\ prGit # {}) => (prRoot \in prGit /\ nearest(prGit))
            /\ (withYml = {} /\ prGit = {}) => prRoot = 0

\* the start directory contains .git, its parent contains
\* .serena/project.yml, and the parent was returned
C26_Witness ==
    /\ 0 \in prGit /\ prYml[0] # "file"
    /\ prYml[1] = "file"
    /\ prRoot = 1

\* C27: after any interleaving of tracked contexts on one tracker, the
\* sample count of each operation name equals the number of contexts of
\* that name that have been exited: a context of one name never adds a
\* sample to, or takes one from, another name.
C27_SamplesPerOperation ==
    \A o \in Operations : SampleCount(o) = tkExited[o]

\* a slow_op context was entered and exited while a fast_op context
\* created before it is still open: one sample for slow_op, none for
\* fast_op
C27_Witness ==
    /\ tkCtx[1] = [op |-> "fast_op", st |-> "entered"]
    /\ tkCtx[2] = [op |-> "slow_op", st |-> "exited"]
    /\ SampleCount("slow_op") = 1 /\ SampleCount("fast_op") = 0


\* C28: after any sequence of Start and Stop there is at most one MCP child
\* that was started and not stopped: every child that was spawned and not
\* stopped is the one whose handle _mcp_proc holds (or the one whose handle
\* run_stream_lines is about to return), so no handle is overwritten by a
\* second spawn, and a Start issued while a handle is tracked writes
\* "[mcp] already running", spawns nothing and leaves the handle alone.
StartedNotStopped == {s \in 1..nStreams : ~stopped[s]}

C28_AtMostOneStartedChild ==
    /\ [](Cardinality(StartedNotStopped) <= 1)
    /\ [](\A s \in StartedNotStopped :
              mcpProc = s \/ (hPc = "spawned" /\ s = nStreams /\ mcpProc = 0))
    /\ [][(lastButton' = "start" /\ actionsDone' = actionsDone + 1 /\ mcpProc # 0)
             => (/\ refusals' = refusals + 1
                 /\ hPc' = "idle"
                 /\ nStreams' = nStreams
                 /\ mcpProc' = mcpProc)]_vars

C28_Witness ==
    /\ refusals > 0
    /\ nStreams = 1
    /\ mcpProc = 1
    /\ chState[1] = "running"
    /\ hPc = "idle"


\* C29: whenever a Start is refused with "[mcp] already running", the child
\* whose handle is tracked is still running; so after the child exited by
\* itself the next Start spawns a new child without a Stop in between.
C29_RefusedOnlyWhileRunning ==
    [][(refusals' = refusals + 1) => chState[mcpProc] = "running"]_vars


\* C30: called without a timeout, run_capture never kills the child: once the
\* read has ended at end-of-file no kill is sent, however long the child keeps
\* running, and the exit code returned is the child's own.
C30_NoTimeoutNeverKills ==
    (rcTimeout = "None" /\ rcExc = "none")
        => /\ ~killSent
           /\ rcPc = "returned" => rc = "self"


\* C31: when the task awaiting run_capture is cancelled, while it reads the
\* output or while it waits for the child to exit, the cancellation reaches
\* the caller only after the child has ended and has been reaped.
C31_CancelStillReaps ==
    (rcPc = "raised" /\ rcExc = "Cancelled") => proc = "reaped"


\* C32: an exception raised by on_line for one line does not end the stream:
\* the pump of a stream ends only at end-of-file of the child's output (or by
\* being cancelled with the event loop), never because on_line raised, so
\* every later line is still read and delivered.
C32_CallbackErrorKeepsStream ==
    \A s \in Streams :
        pump[s] \in {"done", "removed"} => pumpEnd[s] \in {"eof", "cancelled"}


\* C33: find_executable_in_path returns None or a non-empty path, on every
\* platform and for every outcome of the PATH search and of `where`
\* (exit code 0 with empty output included): never the empty string.
C33_NoneOrNonEmptyPath ==
    feipOut # "unset" => (feipOut = "None" \/ feipOut # "")


\* C34: saving a SerenaTuiState for a project root and then loading from the
\* same root yields an object equal to the saved one, its lastProjectRoot
\* being that root, whenever the saved context, transport and host are
\* non-empty and no entry of its modes is blank; this also holds for the
\* second save and load of the object a first cycle returned.
ValidState(o) ==
    /\ o.context # ""
    /\ o.transport # ""
    /\ o.host # ""
    /\ \A i \in 1..Len(o.modes) : Strip(o.modes[i]) # ""

C34_SaveLoadRoundTrip ==
    (stPc = "loaded" /\ ValidState(stSaved))
        => (stObj = stSaved /\ stObj.lastProjectRoot = ProjectRoot)

\* the second cycle of an object with a blank-only context, a mode that
\* starts with a blank, port 0 and a flag switched off
C34_Witness ==
    /\ stPc = "loaded"
    /\ stCycles = 2
    /\ ValidState(stSaved)
    /\ stSaved.context = " "
    /\ stSaved.modes = <<" b", "a">>
    /\ stSaved.port = 0
    /\ ~stSaved.disableDashboard
    /\ stObj = stSaved

====
